---- MODULE Spec2Model ----
(***************************************************************************)
(* A model of the query-condition tree (haystack/query_utils.py), the      *)
(* search fields (haystack/fields.py) and the attribute helpers            *)
(* (haystack/utils/__init__.py) of django-haystack.                        *)
(*                                                                         *)
(* Python strings are TLA+ strings; Len, SubSeq and \o act on them         *)
(* character by character, so splitting, joining and regular-expression   *)
(* substitution are computed on the characters as the code computes them. *)
(***************************************************************************)
EXTENDS Integers, Sequences, FiniteSets, TLC

VARIABLES
    sq,                 \* the condition tree (SQ object) under construction
    lhs, rhs, op,       \* operands and operator of the operation that built it
    segs, filt,         \* path segments and trailing filter type of a keyword
    expression,         \* the string last handed to split_expression
    field, filter_type, \* what split_expression returned for it
    epc,                \* position of the keyword pipeline
    obj,                \* the object handed to SearchField.prepare
    model_attr, _default, null,     \* the field's configuration
    current_object, _attr, _attr_for_check, loop_i,  \* locals of the path walk
    steps,              \* attribute reads made by the walk
    fpc,                \* position of prepare
    how,                \* the exit prepare took
    retval, error,      \* what prepare returned or raised
    ftype,              \* the class of the field whose convert is applied
    conv_in, conv_out, conv_again,  \* a value, its conversion, and that
                                    \* conversion converted again
    cpc,                \* position of the conversions
    self_dict,          \* the __dict__ of a BaseResult
    held, prev,         \* what the caller holds, and held before the last step
    chain,              \* the names read from the result so far
    seen,               \* what comparing, testing or printing held gave
    apc,                \* position of the attribute accesses
    sr,                 \* the __dict__ of a SearchResult
    kwargs,             \* the extra fields its constructor was given
    registered, row,    \* whether its model resolves; its row in the database
    lookups, logged,    \* manager.get calls and log.error calls made so far
    reads, sets,        \* reads of and assignments to its object property
    returned,           \* what the last read of the property gave
    additional,         \* what get_additional_fields last returned
    rpc,                \* position of the SearchResult
    obj_or_string,      \* what get_identifier is given
    identifier,         \* what it returned or raised
    again,              \* what it returned or raised, given that
    ipc,                \* position of get_identifier
    documents,          \* the fields each indexed document has
    kwarg, negate_it,   \* the key filtered on None, and whether by exclude
    query_string,       \* the query compiled for it
    selected,           \* the documents the query selected
    spc,                \* position of the search
    backend_hits,       \* the number of hits the backend has for the query
    page_size,          \* results asked of the backend in one fetch
    _result_cache,      \* the shared cache of a SearchQuerySet
    hit_count,          \* its total count, None until a fetch tells it
    queries,            \* the fetches made, as backends.queries logs them
    iter_kind,          \* the iteration under way: "iter" or "manual"
    position, page,     \* its offset, and the fetched results not yet yielded
    yielded,            \* the results it has yielded
    lpc,                \* position of the iteration
    touch, touches,     \* the last operation on the result set, and how many
    text_block,         \* the text a Highlighter works on, tags stripped
    query_words,        \* its query words
    max_length,         \* its window length
    highlight_locations,\* the offsets found for each query word
    window,             \* what find_window returned
    hpc,                \* position of the Highlighter
    DEBUG,              \* settings.DEBUG
    search_queries,     \* backends.queries, the process-wide query log
    ran,                \* the query string of the last run
    gpc,                \* the last operation on the log
    failing,            \* whether the search engine cannot be reached
    solr_index,         \* the documents the search engine holds
    logs_seen,          \* the records logged, as CaptureHandler keeps them
    outcome,            \* how the last backend call ended
    bpc,                \* the last step at the backend boundary
    result_sets,        \* the SearchQuerySets made: the query and the cache
                        \* each one refers to
    plans,              \* the query objects referred to
    caches,             \* the result caches referred to
    through,            \* the result set the last fetch was made through
    kpc                 \* the last operation on the result sets

qvars == <<sq, lhs, rhs, op>>
evars == <<segs, filt, expression, field, filter_type, epc>>
fconf == <<obj, model_attr, _default, null>>
fvars == <<fconf, current_object, _attr, _attr_for_check, loop_i, steps, fpc, how,
           retval, error>>
cvars == <<ftype, conv_in, conv_out, conv_again, cpc>>
avars == <<self_dict, held, prev, chain, seen, apc>>
rvars == <<sr, kwargs, registered, row, lookups, logged, reads, sets, returned,
           additional, rpc>>
ivars == <<obj_or_string, identifier, again, ipc>>
svars == <<documents, kwarg, negate_it, query_string, selected, spc>>
lvars == <<backend_hits, page_size, _result_cache, hit_count, queries, iter_kind,
           position, page, yielded, lpc, touch, touches>>
hvars == <<text_block, query_words, max_length, highlight_locations, window, hpc>>
gvars == <<DEBUG, search_queries, ran, gpc>>
bvars == <<failing, solr_index, logs_seen, outcome, bpc>>
kvars == <<result_sets, plans, caches, through, kpc>>
vars == <<qvars, evars, fvars, cvars, avars, rvars, ivars, svars, lvars, hvars, gvars, bvars, kvars>>

\* what the operations on one part of the state leave alone
notQ == <<evars, fvars, cvars, avars, rvars, ivars, svars, lvars, hvars, gvars, bvars, kvars>>
notE == <<qvars, fvars, cvars, avars, rvars, ivars, svars, lvars, hvars, gvars, bvars, kvars>>
notF == <<qvars, evars, cvars, avars, rvars, ivars, svars, lvars, hvars, gvars, bvars, kvars>>
notC == <<qvars, evars, fvars, avars, rvars, ivars, svars, lvars, hvars, gvars, bvars, kvars>>
notA == <<qvars, evars, fvars, cvars, rvars, ivars, svars, lvars, hvars, gvars, bvars, kvars>>
notR == <<qvars, evars, fvars, cvars, avars, ivars, svars, lvars, hvars, gvars, bvars, kvars>>
notI == <<qvars, evars, fvars, cvars, avars, rvars, svars, lvars, hvars, gvars, bvars, kvars>>
notS == <<qvars, evars, fvars, cvars, avars, rvars, ivars, lvars, hvars, gvars, bvars, kvars>>
notL == <<qvars, evars, fvars, cvars, avars, rvars, ivars, svars, hvars, gvars, bvars, kvars>>
notH == <<qvars, evars, fvars, cvars, avars, rvars, ivars, svars, lvars, gvars, bvars, kvars>>
notG == <<qvars, evars, fvars, cvars, avars, rvars, ivars, svars, lvars, hvars, bvars, kvars>>
notB == <<qvars, evars, fvars, cvars, avars, rvars, ivars, svars, lvars, hvars, gvars, kvars>>
notK == <<qvars, evars, fvars, cvars, avars, rvars, ivars, svars, lvars, hvars, gvars, bvars>>

(***************************************************************************)
(* Bounds                                                                  *)
(***************************************************************************)
MaxSize == 5        \* leaves and nested nodes of a condition tree
MaxKwargs == 2      \* keyword arguments of one SQ(...)
MaxSegs == 3        \* path segments of a keyword key
MaxAttrs == 2       \* attributes of the object handed to prepare
MaxDict == 2        \* attributes in the __dict__ of a BaseResult
MaxChain == 3       \* reads and calls chained on one result
MaxExtra == 2       \* extra fields handed to one SearchResult
MaxOps == 3         \* reads of and assignments to one object property
MaxDocs == 3        \* indexed documents
MaxHits == 23       \* hits the backend has for one query
MaxPage == 10       \* results fetched at once
MaxText == 4        \* characters of a text block
MaxWindow == 3      \* max_length of a Highlighter
MaxLog == 3         \* entries of the query log
MaxTouches == 3     \* operations on one result set
MaxSets == 3        \* result sets made from one another

(***************************************************************************)
(* String helpers (str.startswith, str.find, str.split, str.join, in)      *)
(***************************************************************************)
StartsWith(s, p) == Len(p) <= Len(s) /\ SubSeq(s, 1, Len(p)) = p

StartsAt(s, p, i) == i + Len(p) - 1 <= Len(s) /\ SubSeq(s, i, i + Len(p) - 1) = p

\* 1-based index of the first occurrence of sub in s at or after from, 0 if none
Find(s, sub, from) ==
    LET hits == {i \in from..Len(s) : StartsAt(s, sub, i)}
    IN IF hits = {} THEN 0 ELSE CHOOSE i \in hits : \A j \in hits : i <= j

Contains(s, sub) == sub = "" \/ Find(s, sub, 1) # 0

RECURSIVE Split(_, _)
Split(s, sep) ==
    LET i == Find(s, sep, 1)
    IN IF i = 0 THEN <<s>>
       ELSE <<SubSeq(s, 1, i - 1)>> \o Split(SubSeq(s, i + Len(sep), Len(s)), sep)

RECURSIVE Join(_, _)
Join(parts, sep) ==
    IF Len(parts) = 0 THEN ""
    ELSE IF Len(parts) = 1 THEN parts[1]
    ELSE parts[1] \o sep \o Join(Tail(parts), sep)

Last(seq) == seq[Len(seq)]

Front(seq) == SubSeq(seq, 1, Len(seq) - 1)

SetMax(S) == CHOOSE x \in S : \A y \in S : y <= x

(***************************************************************************)
(* haystack.constants                                                      *)
(***************************************************************************)
VALID_FILTERS ==
    {"exact", "gt", "gte", "lt", "lte", "in", "startswith", "range", "fuzzy",
     "near"}

FILTER_SEPARATOR == "__"

DOTATTR_SEPARATOR == "0_0_0"

(***************************************************************************)
(* Python values that occur as leaf values                                 *)
(***************************************************************************)
None == [kind |-> "none", text |-> "None"]

Str(s) == [kind |-> "str", text |-> s]

force_unicode(value) == value.text

(***************************************************************************)
(* SearchNode                                                              *)
(***************************************************************************)
Leaf(e, v) == [leaf |-> TRUE, expression |-> e, value |-> v]

Node(children, connector, negated) ==
    [leaf |-> FALSE, children |-> children, connector |-> connector,
     negated |-> negated]

split_expression(expr) ==
    LET parts == Split(expr, FILTER_SEPARATOR)
    IN IF Len(parts) = 1 \/ Last(parts) \notin VALID_FILTERS
       THEN <<parts[1], "exact">>
       ELSE <<parts[1], Last(parts)>>

_repr_query_fragment_callback(f, ft, value) ==
    f \o FILTER_SEPARATOR \o ft \o "=" \o force_unicode(value)

\* as_query_string with double negation eliminated: a negated node whose only
\* child is a negated node compiles as that child's content
RECURSIVE as_query_string_simplified(_)
as_query_string_simplified(self) ==
    LET n == Len(self.children)
        result == [i \in 1..n |->
            IF ~self.children[i].leaf
            THEN as_query_string_simplified(self.children[i])
            ELSE LET fe == split_expression(self.children[i].expression)
                 IN _repr_query_fragment_callback(fe[1], fe[2],
                                                  self.children[i].value)]
        conn == " " \o self.connector \o " "
        joined == Join(result, conn)
        leaves == {i \in 1..n : self.children[i].leaf}
        lastLeaf == self.children[SetMax(leaves)]
    IN IF /\ self.negated /\ n = 1 /\ ~self.children[1].leaf
          /\ self.children[1].negated
       THEN as_query_string_simplified(
                Node(self.children[1].children, self.children[1].connector,
                     FALSE))
       ELSE IF joined # "" /\ leaves # {} /\ lastLeaf.value = None
       THEN IF self.negated
            THEN split_expression(lastLeaf.expression)[1] \o ":[* TO *]"
            ELSE "NOT (" \o split_expression(lastLeaf.expression)[1]
                         \o ":[* TO *])"
       ELSE IF joined # ""
       THEN IF self.negated THEN "NOT (" \o joined \o ")"
            ELSE IF n # 1 THEN "(" \o joined \o ")"
            ELSE joined
       ELSE joined

\* as_query_string with the grouping test 'len(self.children) != 1' dropped:
\* every non-negated node is parenthesised
RECURSIVE as_query_string_always_grouped(_)
as_query_string_always_grouped(self) ==
    LET n == Len(self.children)
        result == [i \in 1..n |->
            IF ~self.children[i].leaf
            THEN as_query_string_always_grouped(self.children[i])
            ELSE LET fe == split_expression(self.children[i].expression)
                 IN _repr_query_fragment_callback(fe[1], fe[2],
                                                  self.children[i].value)]
        joined == Join(result, " " \o self.connector \o " ")
        leaves == {i \in 1..n : self.children[i].leaf}
        lastLeaf == self.children[SetMax(leaves)]
    IN IF joined # "" /\ leaves # {} /\ lastLeaf.value = None
       THEN IF self.negated
            THEN split_expression(lastLeaf.expression)[1] \o ":[* TO *]"
            ELSE "NOT (" \o split_expression(lastLeaf.expression)[1]
                         \o ":[* TO *])"
       ELSE IF joined # ""
       THEN IF self.negated THEN "NOT (" \o joined \o ")"
            ELSE "(" \o joined \o ")"
       ELSE joined

\* as_query_string joining the children with the default connector instead of
\* the node's own
RECURSIVE as_query_string_default_conn(_)
as_query_string_default_conn(self) ==
    LET n == Len(self.children)
        result == [i \in 1..n |->
            IF ~self.children[i].leaf
            THEN as_query_string_default_conn(self.children[i])
            ELSE LET fe == split_expression(self.children[i].expression)
                 IN _repr_query_fragment_callback(fe[1], fe[2],
                                                  self.children[i].value)]
        joined == Join(result, " AND ")
        leaves == {i \in 1..n : self.children[i].leaf}
        lastLeaf == self.children[SetMax(leaves)]
    IN IF joined # "" /\ leaves # {} /\ lastLeaf.value = None
       THEN IF self.negated
            THEN split_expression(lastLeaf.expression)[1] \o ":[* TO *]"
            ELSE "NOT (" \o split_expression(lastLeaf.expression)[1]
                         \o ":[* TO *])"
       ELSE IF joined # ""
       THEN IF self.negated THEN "NOT (" \o joined \o ")"
            ELSE IF n # 1 THEN "(" \o joined \o ")"
            ELSE joined
       ELSE joined

RECURSIVE as_query_string(_)
as_query_string(self) ==
    LET n == Len(self.children)
        result == [i \in 1..n |->
            IF ~self.children[i].leaf
            THEN as_query_string(self.children[i])
            ELSE LET fe == split_expression(self.children[i].expression)
                 IN _repr_query_fragment_callback(fe[1], fe[2],
                                                  self.children[i].value)]
        conn == " " \o self.connector \o " "
        joined == Join(result, conn)
        leaves == {i \in 1..n : self.children[i].leaf}
        \* the locals 'value' and 'field' keep what the last leaf bound
        bound == leaves # {}
        lastLeaf == self.children[SetMax(leaves)]
    IN IF joined # "" /\ bound /\ lastLeaf.value = None
       THEN IF self.negated
            THEN split_expression(lastLeaf.expression)[1] \o ":[* TO *]"
            ELSE "NOT (" \o split_expression(lastLeaf.expression)[1]
                         \o ":[* TO *])"
       ELSE IF joined # ""
       THEN IF self.negated THEN "NOT (" \o joined \o ")"
            ELSE IF n # 1 THEN "(" \o joined \o ")"
            ELSE joined
       ELSE joined

(***************************************************************************)
(* SQ: keyword preparation and the tree operations inherited from Q        *)
(***************************************************************************)
\* re.sub(ATTR_REPL_REGEX, SEPARATOR, key), scanning from character i
RECURSIVE ReSubAttr(_, _)
ReSubAttr(key, i) ==
    IF i > Len(key) THEN ""
    ELSE IF StartsAt(key, "__", i)
            /\ ~\E f \in VALID_FILTERS : StartsAt(key, f, i + 2)
         THEN DOTATTR_SEPARATOR \o ReSubAttr(key, i + 2)
         ELSE SubSeq(key, i, i) \o ReSubAttr(key, i + 1)

prepare_key(key) == IF Contains(key, "__") THEN ReSubAttr(key, 1) ELSE key

prepare_kwargs(items) ==
    [i \in 1..Len(items) |-> Leaf(prepare_key(items[i].expression),
                                  items[i].value)]

\* SQ(**kwargs): a non-negated AND node over the prepared keyword items
SQ(items) == Node(prepare_kwargs(items), "AND", FALSE)

\* tree.Node.add on a node whose connector already is conn: a child node with
\* the same connector or a single child is merged, any other is appended
add(self, node, conn) ==
    IF node.connector = conn \/ Len(node.children) = 1
    THEN Node(self.children \o node.children, conn, self.negated)
    ELSE Node(Append(self.children, node), conn, self.negated)

\* Q._combine: obj = SQ(); obj.add(self, conn); obj.add(other, conn)
combine(self, other, conn) == add(add(SQ(<<>>), self, conn), other, conn)

\* tree.Node.negate: push the children into one child of opposite negation
negate(self) ==
    Node(<<Node(self.children, self.connector, ~self.negated)>>, "AND",
         self.negated)

\* Q.__invert__: obj = SQ(); obj.add(self, AND); obj.negate()
invert(self) == negate(add(SQ(<<>>), self, "AND"))

\* the number of leaves and nested nodes below the root of t
RECURSIVE Size(_)
Size(t) ==
    LET c == t.children
        RECURSIVE Sum(_)
        Sum(i) == IF i = 0 THEN 0
                  ELSE (IF c[i].leaf THEN 1 ELSE 1 + Size(c[i])) + Sum(i - 1)
    IN Sum(Len(c))

RECURSIVE Subnodes(_)
Subnodes(t) ==
    IF t.leaf THEN {}
    ELSE {t} \cup UNION {Subnodes(t.children[i]) : i \in 1..Len(t.children)}

(***************************************************************************)
(* Python objects: None, strings, callables and attribute-bearing objects  *)
(***************************************************************************)
Obj(attrs) == [kind |-> "obj", attrs |-> attrs]

Callable(ret) == [kind |-> "callable", ret |-> ret]

NOT_PROVIDED == [kind |-> "not_provided"]

hasattr(o, name) == o.kind = "obj" /\ name \in DOMAIN o.attrs

getattr(o, name) == o.attrs[name]

callable(o) == o.kind = "callable"

(***************************************************************************)
(* haystack.utils.check_attr; its None is the empty string here            *)
(***************************************************************************)
proccess(o, attr1, attr2, separator) ==
    IF hasattr(o, attr1 \o separator \o attr2)
    THEN attr1 \o separator \o attr2
    ELSE attr1

RECURSIVE reduce_proccess(_, _, _, _)
reduce_proccess(o, acc, rest, separator) ==
    IF Len(rest) = 0 THEN acc
    ELSE reduce_proccess(o, proccess(o, acc, rest[1], separator), Tail(rest),
                         separator)

check_attr(o, attr_name, separator) ==
    IF hasattr(o, attr_name) THEN attr_name
    ELSE LET splited_attr == Split(attr_name, separator)
             attr == reduce_proccess(o, splited_attr[1], Tail(splited_attr),
                                     separator)
         IN IF ~hasattr(o, attr) THEN "" ELSE attr

(***************************************************************************)
(* SearchField                                                             *)
(***************************************************************************)
has_default(d) == d # NOT_PROVIDED

\* the 'default' property: a callable default is called
default(d) == IF callable(d) THEN d.ret ELSE d

\* re.sub(r'^%s(?:__)?' % attr, '', s)
StripAttr(s, attr) ==
    IF ~StartsWith(s, attr) THEN s
    ELSE LET r == SubSeq(s, Len(attr) + 1, Len(s))
         IN IF StartsWith(r, "__") THEN SubSeq(r, 3, Len(r)) ELSE r

generate_attr_name(o, check, iter) ==
    IF iter = 0 /\ check = "composition__firm__url" THEN "composition__firm"
    ELSE check_attr(o, check, "__")

Text == {None, Str("v")}

Inner ==
    {Obj([n \in {"b"} |-> None]), Obj([n \in {"b"} |-> Str("v")]),
     Obj([n \in {"c"} |-> Str("v")])}

AttrValues ==
    Text \cup Inner \cup {Callable(None), Callable(Obj([n \in {"b"} |-> Str("v")]))}

AttrNames == {"a", "a__b", "a__c", "composition__firm"}

Objects ==
    {Obj(f) : f \in UNION {[S -> AttrValues] :
                  S \in {T \in SUBSET AttrNames : Cardinality(T) <= MaxAttrs}}}

ModelAttrs ==
    {None, Str("a"), Str("a__b"), Str("a__b__c"), Str("b"),
     Str("composition__firm__url")}

Defaults == {NOT_PROVIDED, None, Str("d"), Callable(Str("d"))}

(***************************************************************************)
(* The parts of the state a specification leaves untouched                 *)
(***************************************************************************)
Empty == SQ(<<>>)

QIdle == sq = Empty /\ lhs = Empty /\ rhs = Empty /\ op = "idle"

EIdle ==
    /\ segs = <<>> /\ filt = "" /\ expression = "" /\ field = ""
    /\ filter_type = "" /\ epc = "idle"

FIdle ==
    /\ obj = None /\ model_attr = None /\ _default = NOT_PROVIDED
    /\ null = FALSE /\ current_object = None /\ _attr = ""
    /\ _attr_for_check = "" /\ loop_i = -1 /\ steps = 0 /\ fpc = "idle"
    /\ how = "" /\ retval = None /\ error = ""

CIdle ==
    /\ ftype = "" /\ conv_in = None /\ conv_out = None /\ conv_again = None
    /\ cpc = "idle"

AIdle ==
    /\ self_dict = <<>> /\ held = None /\ prev = None /\ chain = <<>>
    /\ seen = None /\ apc = "idle"

RIdle ==
    /\ sr = <<>> /\ kwargs = <<>> /\ registered = FALSE /\ row = None
    /\ lookups = 0 /\ logged = 0 /\ reads = 0 /\ sets = 0 /\ returned = None
    /\ additional = <<>> /\ rpc = "idle"

IIdle ==
    /\ obj_or_string = None /\ identifier = None /\ again = None
    /\ ipc = "idle"

SIdle ==
    /\ documents = <<>> /\ kwarg = "" /\ negate_it = FALSE /\ query_string = ""
    /\ selected = {} /\ spc = "idle"

LIdle ==
    /\ backend_hits = 0 /\ page_size = 0 /\ _result_cache = <<>>
    /\ hit_count = None /\ queries = <<>> /\ iter_kind = "" /\ position = 0
    /\ page = <<>> /\ yielded = <<>> /\ lpc = "idle" /\ touch = None
    /\ touches = 0

HIdle ==
    /\ text_block = "" /\ query_words = {} /\ max_length = 0
    /\ highlight_locations = <<>> /\ window = <<0, 0>> /\ hpc = "idle"

GIdle ==
    /\ DEBUG = FALSE /\ search_queries = <<>> /\ ran = "" /\ gpc = "idle"

BIdle ==
    /\ failing = FALSE /\ solr_index = {} /\ logs_seen = <<>> /\ outcome = None
    /\ bpc = "idle"

KIdle ==
    /\ result_sets = <<>> /\ plans = <<>> /\ caches = <<>> /\ through = 0
    /\ kpc = "idle"

(***************************************************************************)
(* Building and combining condition trees                                  *)
(***************************************************************************)
\* the keyword items SQ(...) is called with: one field holding a text, one
\* dotted field holding None
KwargLeaves == {Leaf("title", Str("moof")), Leaf("tag__name", None)}

KwargItems ==
    {items \in UNION {[1..n -> KwargLeaves] : n \in 0..MaxKwargs} :
        \A i, j \in 1..Len(items) :
            i # j => items[i].expression # items[j].expression}

\* the right-hand operands: SQ(...), ~SQ(...), SQ(...) & SQ(...), SQ(...) | SQ(...)
Operands ==
    LET fresh == {SQ(items) : items \in KwargItems}
        single == {t \in fresh : Len(t.children) = 1}
    IN fresh \cup {invert(t) : t \in single}
             \cup {combine(t, u, c) : t \in single, u \in single,
                                      c \in {"AND", "OR"}}

Fits(t) == Size(t) <= MaxSize

QInit ==
    /\ sq \in {SQ(items) : items \in KwargItems}
    /\ lhs = Empty /\ rhs = Empty /\ op = "SQ"

\* sq = SQ(**kwargs)
NewSQ(items) ==
    /\ sq' = SQ(items)
    /\ lhs' = Empty /\ rhs' = Empty /\ op' = "SQ"
    /\ UNCHANGED notQ

\* sq = sq & other
And(other) ==
    /\ Fits(combine(sq, other, "AND"))
    /\ sq' = combine(sq, other, "AND")
    /\ lhs' = sq /\ rhs' = other /\ op' = "AND"
    /\ UNCHANGED notQ

\* sq = sq | other
Or(other) ==
    /\ Fits(combine(sq, other, "OR"))
    /\ sq' = combine(sq, other, "OR")
    /\ lhs' = sq /\ rhs' = other /\ op' = "OR"
    /\ UNCHANGED notQ

\* sq = ~sq
Invert ==
    /\ Fits(invert(sq))
    /\ sq' = invert(sq)
    /\ lhs' = sq /\ rhs' = Empty /\ op' = "NOT"
    /\ UNCHANGED notQ

QueryInit == QInit /\ EIdle /\ FIdle /\ CIdle /\ AIdle /\ RIdle /\ IIdle /\ SIdle /\ LIdle /\ HIdle /\ GIdle /\ BIdle /\ KIdle

QueryNext ==
    \/ \E items \in KwargItems : NewSQ(items)
    \/ \E other \in Operands : And(other)
    \/ \E other \in Operands : Or(other)
    \/ Invert

SpecQuery == QueryInit /\ [][QueryNext]_vars

(***************************************************************************)
(* Properties of the compiled query string                                 *)
(***************************************************************************)
Conn(c) == " " \o c \o " "

LeafChildren(n) == {i \in 1..Len(n.children) : n.children[i].leaf}

NonNullLeaves(n) == \A i \in LeafChildren(n) : n.children[i].value # None

\* tree.Node.add merges such an operand's children into the combined node
Merged(t, c) == Len(t.children) = 1 \/ t.connector = c

Grouped(t, c) == Len(t.children) >= 2 /\ t.connector = c

Combined == op \in {"AND", "OR"}

BothCompile == as_query_string(lhs) # "" /\ as_query_string(rhs) # ""

Unwrapped(s) == SubSeq(s, 2, Len(s) - 1)

\* what an operand contributes to the combined string
Operand(t, c) ==
    IF Grouped(t, c) THEN Unwrapped(as_query_string(t)) ELSE as_query_string(t)

\* C1 as stated, on operands whose leaf children hold no null value: whenever
\* two trees that compile to non-empty strings are combined with AND (OR), the
\* combined tree compiles to "(" + compile(T1) + " AND " + compile(T2) + ")"
\* (" OR " likewise).
C1_Original ==
    (Combined /\ BothCompile /\ NonNullLeaves(lhs) /\ NonNullLeaves(rhs)) =>
        as_query_string(sq) =
            "(" \o as_query_string(lhs) \o Conn(op) \o as_query_string(rhs)
                \o ")"

\* C1 amended: the combined tree compiles to "(" + X1 + " AND " + X2 + ")",
\* where Xi is compile(Ti) except for an operand of two or more children whose
\* connector is the combining one: its children are merged into the combined
\* node and Xi is compile(Ti) without its enclosing parentheses.  This holds
\* when every merged operand (one child, or the combining connector) has only
\* non-null leaf children; a single-leaf operand gets no parentheses.
C1_Amended ==
    (/\ Combined /\ BothCompile
     /\ Merged(lhs, op) => NonNullLeaves(lhs)
     /\ Merged(rhs, op) => NonNullLeaves(rhs)) =>
        as_query_string(sq) =
            "(" \o Operand(lhs, op) \o Conn(op) \o Operand(rhs, op) \o ")"

\* (SQ(title=..) & SQ(title=..)) & SQ(title=..): the left operand is merged
C1_Witness ==
    /\ op = "AND" /\ BothCompile
    /\ Grouped(lhs, "AND") /\ NonNullLeaves(lhs)
    /\ Len(rhs.children) = 1 /\ rhs.children[1].leaf /\ NonNullLeaves(rhs)
    /\ as_query_string(sq) =
         "(" \o Unwrapped(as_query_string(lhs)) \o " AND "
             \o as_query_string(rhs) \o ")"

\* the fragment the claim C2 gives child i of node n
ClaimedFragment(n, i) ==
    LET c == n.children[i]
    IN IF ~c.leaf THEN as_query_string(c)
       ELSE IF c.value = None
       THEN IF n.negated
            THEN split_expression(c.expression)[1] \o ":[* TO *]"
            ELSE "NOT (" \o split_expression(c.expression)[1] \o ":[* TO *])"
       ELSE _repr_query_fragment_callback(split_expression(c.expression)[1],
                split_expression(c.expression)[2], c.value)

\* C2 as stated: in every node with a null-valued leaf child, the compiled
\* string holds, joined by the node's connector in child order, the existence
\* predicate of each null-valued leaf and the compiled fragment of every other
\* child.
C2_Original ==
    \A n \in Subnodes(sq) :
        (\E i \in LeafChildren(n) : n.children[i].value = None) =>
            Contains(as_query_string(n),
                     Join([i \in 1..Len(n.children) |-> ClaimedFragment(n, i)],
                          Conn(n.connector)))

\* the compiled string of child i of node n
ChildString(n, i) ==
    LET c == n.children[i]
    IN IF ~c.leaf THEN as_query_string(c)
       ELSE _repr_query_fragment_callback(split_expression(c.expression)[1],
                split_expression(c.expression)[2], c.value)

JoinedChildren(n) ==
    Join([i \in 1..Len(n.children) |-> ChildString(n, i)], Conn(n.connector))

C3_Case(n) ==
    /\ Len(n.children) >= 1
    /\ NonNullLeaves(n)
    /\ \A i \in 1..Len(n.children) : ChildString(n, i) # ""

CharAt(s, i) == IF i >= 1 /\ i <= Len(s) THEN SubSeq(s, i, i) ELSE ""

\* s has the connector c at position i with nothing to join on one side
EmptyOperandAt(s, c, i) ==
    /\ StartsAt(s, Conn(c), i)
    /\ \/ CharAt(s, i - 1) \in {"", "(", " "}
       \/ CharAt(s, i + Len(Conn(c))) \in {"", ")", " "}

\* C27 as stated: the compiled string is empty or has a non-empty fragment on
\* each side of every ' AND ' and ' OR ' in it, also when a child node of the
\* tree has no children.
C27_Original ==
    \A c \in {"AND", "OR"} : \A i \in 1..Len(as_query_string(sq)) :
        ~EmptyOperandAt(as_query_string(sq), c, i)

\* a negated node whose only child is a negated node
DoublyNegated(n) ==
    /\ n.negated /\ Len(n.children) = 1 /\ ~n.children[1].leaf
    /\ n.children[1].negated /\ as_query_string(n.children[1]) # ""

\* C18 as stated: a negated node whose only child is a negated node compiles
\* to "NOT (NOT (X))", X being what the child negates: the child compiles to
\* "NOT (" X ")" and the node to "NOT (" that ")".
C18_Original ==
    \A n \in Subnodes(sq) :
        DoublyNegated(n) =>
            /\ StartsWith(as_query_string(n.children[1]), "NOT (")
            /\ as_query_string(n) =
                 "NOT (" \o as_query_string(n.children[1]) \o ")"

\* C18 amended: the same when the leaf children of the inner node hold
\* non-null values, X being its children's strings joined by its connector.
C18_Amended ==
    \A n \in Subnodes(sq) :
        (DoublyNegated(n) /\ NonNullLeaves(n.children[1])) =>
            as_query_string(n) =
                "NOT (NOT (" \o JoinedChildren(n.children[1]) \o "))"

\* ~~SQ(title='moof') has been built
C18_Witness ==
    /\ op = "NOT" /\ Len(sq.children) = 1 /\ DoublyNegated(sq.children[1])
    /\ NonNullLeaves(sq.children[1].children[1])
    /\ as_query_string(sq) = "NOT (NOT (title__exact=moof))"

(***************************************************************************)
(* Keyword keys: SQ.prepare_kwargs followed by split_expression            *)
(***************************************************************************)
Segments == {"tag", "name", "index", "gt"}

TrailingFilters == {"", "gt", "exact"}

SegPaths == UNION {[1..n -> Segments] : n \in 1..MaxSegs}

\* the key: the path joined by sep, then '__<filter type>' if one is given
Key(path, ft, sep) ==
    Join(path, sep) \o (IF ft = "" THEN "" ELSE FILTER_SEPARATOR \o ft)

EInit ==
    /\ segs \in SegPaths /\ filt \in TrailingFilters
    /\ expression = "" /\ field = "" /\ filter_type = "" /\ epc = "start"

\* SQ(**{key: v}) with the key written with '__' or with the dotted-attribute
\* separator between the path segments
PrepareKwargs(dotted) ==
    /\ epc = "start"
    /\ expression' = prepare_key(Key(segs, filt,
                        IF dotted THEN DOTATTR_SEPARATOR ELSE "__"))
    /\ epc' = "prepared"
    /\ UNCHANGED <<segs, filt, field, filter_type, notE>>

\* as_query_string reaches the leaf built from the prepared key
SplitPrepared ==
    /\ epc = "prepared"
    /\ field' = split_expression(expression)[1]
    /\ filter_type' = split_expression(expression)[2]
    /\ epc' = "split"
    /\ UNCHANGED <<segs, filt, expression, notE>>

\* as_query_string reaches a leaf given positionally, SQ((expression, v))
SplitPositional ==
    /\ epc = "start"
    /\ expression' = Key(segs, filt, "__")
    /\ field' = split_expression(expression')[1]
    /\ filter_type' = split_expression(expression')[2]
    /\ epc' = "split_positional"
    /\ UNCHANGED <<segs, filt, notE>>

ExprInit == EInit /\ QIdle /\ FIdle /\ CIdle /\ AIdle /\ RIdle /\ IIdle /\ SIdle /\ LIdle /\ HIdle /\ GIdle /\ BIdle /\ KIdle

ExprNext ==
    \/ \E dotted \in BOOLEAN : PrepareKwargs(dotted)
    \/ SplitPrepared
    \/ SplitPositional

SpecExpr == ExprInit /\ [][ExprNext]_vars

\* C4 as stated, on expressions of two or more segments: split_expression returns (whole expression, "exact") when the
\* last segment is no filter type, and otherwise (all segments but the last
\* rejoined with the separator, last segment).
C4_Original ==
    (/\ epc \in {"split", "split_positional"}
     /\ Len(Split(expression, FILTER_SEPARATOR)) >= 2) =>
        LET parts == Split(expression, FILTER_SEPARATOR)
        IN <<field, filter_type>> =
            IF Last(parts) \notin VALID_FILTERS THEN <<expression, "exact">>
            ELSE <<Join(Front(parts), FILTER_SEPARATOR), Last(parts)>>

\* C5 as stated: a key whose path segments (none of them a filter type) are
\* joined by '__' or by the dotted-attribute separator yields the flattened
\* field name and the trailing filter type ("exact" when none is given).
C5_Original ==
    (epc = "split" /\ \A i \in 1..Len(segs) : segs[i] \notin VALID_FILTERS) =>
        <<field, filter_type>> =
            <<Join(segs, DOTATTR_SEPARATOR),
              IF filt = "" THEN "exact" ELSE filt>>

(***************************************************************************)
(* SearchField.prepare                                                     *)
(***************************************************************************)
FInit ==
    /\ obj \in Objects /\ model_attr \in ModelAttrs
    /\ _default \in Defaults /\ null \in BOOLEAN
    /\ current_object = None /\ _attr = "" /\ _attr_for_check = ""
    /\ loop_i = -1 /\ steps = 0 /\ fpc = "start" /\ how = "" /\ retval = None
    /\ error = ""

Return(value, exit) ==
    /\ fpc' = "returned" /\ retval' = value /\ how' = exit /\ error' = ""

Raise(exc, exit) ==
    /\ fpc' = "raised" /\ error' = exc /\ how' = exit /\ retval' = None

\* prepare on a field without model_attr: the default property or None
PrepareNoAttr ==
    /\ fpc = "start" /\ model_attr = None
    /\ Return(IF has_default(_default) THEN default(_default) ELSE None,
              "no_model_attr")
    /\ UNCHANGED <<fconf, current_object, _attr, _attr_for_check, loop_i, steps,
                   notF>>

\* prepare up to the head of its 'while True' loop
PrepareStart ==
    /\ fpc = "start" /\ model_attr # None
    /\ current_object' = obj
    /\ _attr' = "" /\ _attr_for_check' = model_attr.text /\ loop_i' = -1
    /\ fpc' = "loop"
    /\ UNCHANGED <<fconf, steps, how, retval, error, notF>>

\* one iteration of the loop
Iterate ==
    /\ fpc = "loop"
    /\ LET check == StripAttr(_attr_for_check, _attr)
           name == generate_attr_name(current_object, check, loop_i + 1)
           got == getattr(current_object, name)
           value == IF callable(got) THEN got.ret ELSE got
       IN /\ loop_i' = loop_i + 1
          /\ _attr_for_check' = check
          /\ _attr' = name
          /\ IF name = "" /\ check = ""
             THEN Return(current_object, "end_of_path")
                  /\ UNCHANGED <<current_object, steps>>
             ELSE IF name = "" \/ ~hasattr(current_object, name)
             THEN Raise("SearchFieldError", "no_attribute")
                  /\ UNCHANGED <<current_object, steps>>
             ELSE /\ steps' = steps + 1
                  /\ IF value # None
                     THEN /\ current_object' = value
                          /\ UNCHANGED <<fpc, how, retval, error>>
                     ELSE IF has_default(_default)
                     THEN current_object' = _default
                          /\ Return(_default, "none_default")
                     ELSE IF null
                     THEN current_object' = None /\ Return(None, "none_null")
                     ELSE current_object' = None
                          /\ Raise("NameError", "none_unhandled")
    /\ UNCHANGED <<fconf, notF>>

FieldNext == PrepareNoAttr \/ PrepareStart \/ Iterate

FieldInit == FInit /\ QIdle /\ EIdle /\ CIdle /\ AIdle /\ RIdle /\ IIdle /\ SIdle /\ LIdle /\ HIdle /\ GIdle /\ BIdle /\ KIdle

SpecField == FieldInit /\ [][FieldNext]_vars

Done == fpc \in {"returned", "raised"}

\* a step of the walk yielded None
MetNone == how \in {"none_default", "none_null", "none_unhandled"}

\* C6 as stated: when a step yields None and a default is configured, prepare
\* returns the value of the default property (a callable default called), the
\* value a field without source path returns; with no default and nulls
\* allowed it returns None.
C6_Original ==
    (Done /\ MetNone) =>
        /\ has_default(_default) =>
              fpc = "returned" /\ retval = default(_default)
        /\ (~has_default(_default) /\ null) =>
              fpc = "returned" /\ retval = None

\* C7 as stated: when a step yields None and the field has no default and
\* does not allow nulls, prepare raises SearchFieldError.
C7_Original ==
    (Done /\ MetNone /\ ~has_default(_default) /\ ~null) =>
        fpc = "raised" /\ error = "SearchFieldError"

\* the prefixes of path that end at a separator
PathPrefixes(path) ==
    LET parts == Split(path, "__")
    IN {Join(SubSeq(parts, 1, k), "__") : k \in 1..Len(parts)}

\* C8 as stated, for the first step of the walk: when no prefix of the source
\* path names an attribute of the object, prepare fails and never returns a
\* value, whatever the default and the null flag.
C8_Original ==
    (/\ Done /\ model_attr # None
     /\ \A pre \in PathPrefixes(model_attr.text) : ~hasattr(obj, pre)) =>
        fpc = "raised"

\* the longest prefix of path, cut at a separator, that names an attribute
\* of o; the empty string when there is none
LongestPrefix(o, path) ==
    LET named == {pre \in PathPrefixes(path) : hasattr(o, pre)}
    IN IF named = {} THEN ""
       ELSE CHOOSE pre \in named : \A other \in named : Len(other) <= Len(pre)

\* the first iteration of the walk has asked check_attr for the whole path
FirstChecked ==
    loop_i = 0 /\ model_attr.text # "composition__firm__url"

\* C26 as stated: check_attr(obj, path) is the longest prefix of path, cut at
\* a separator, that names an attribute of obj, and None when no prefix does.
C26_Original ==
    FirstChecked => _attr = LongestPrefix(obj, model_attr.text)

\* the segments of a path
SegCount(path) == IF path = "" THEN 0 ELSE Len(Split(path, "__"))

\* the part of the source path the next iteration will look at
Remaining == StripAttr(_attr_for_check, _attr)

\* C28 as stated: every iteration of the walk that does not stop removes at
\* least one segment from the remaining path, and a source path of n segments
\* performs at most n attribute steps.
C28_Original ==
    /\ [](fpc = "loop" => steps <= SegCount(model_attr.text))
    /\ [][(fpc = "loop" /\ fpc' = "loop" /\ loop_i' = loop_i + 1) =>
              SegCount(Remaining') < SegCount(Remaining)]_vars

(***************************************************************************)
(* Field conversions: the values                                           *)
(***************************************************************************)
Integer(n) == [kind |-> "int", n |-> n]

\* a float with one decimal digit, held as its tenfold
Float(tenths) == [kind |-> "float", tenths |-> tenths]

Bool(v) == [kind |-> "bool", v |-> v]

List(items) == [kind |-> "list", items |-> items]

Date(year, month, day) ==
    [kind |-> "date", year |-> year, month |-> month, day |-> day]

DateTime(year, month, day, hour, minute, second) ==
    [kind |-> "datetime", year |-> year, month |-> month, day |-> day,
     hour |-> hour, minute |-> minute, second |-> second]

\* the string base64.b64encode(pickle.dumps(v))
Pickled(v) == [kind |-> "pickled", of |-> v]

Err(exc) == [kind |-> "error", exc |-> exc]

IsError(v) == v.kind = "error"

basestring(v) == v.kind \in {"str", "pickled"}

(***************************************************************************)
(* Decimal digits: int(), float(), unicode() and \d                        *)
(***************************************************************************)
Digits == "0123456789"

IsDigit(c) == \E d \in 1..10 : SubSeq(Digits, d, d) = c

DigitVal(c) == (CHOOSE d \in 1..10 : SubSeq(Digits, d, d) = c) - 1

AllDigits(s) == Len(s) >= 1 /\ \A k \in 1..Len(s) : IsDigit(SubSeq(s, k, k))

RECURSIVE ParseNat(_)
ParseNat(s) ==
    IF Len(s) = 0 THEN 0
    ELSE 10 * ParseNat(SubSeq(s, 1, Len(s) - 1)) + DigitVal(SubSeq(s, Len(s), Len(s)))

RECURSIVE NatToStr(_)
NatToStr(n) ==
    IF n < 10 THEN SubSeq(Digits, n + 1, n + 1)
    ELSE NatToStr(n \div 10) \o SubSeq(Digits, (n % 10) + 1, (n % 10) + 1)

IntToStr(n) == IF n < 0 THEN "-" \o NatToStr(-n) ELSE NatToStr(n)

Pad2(n) == IF n < 10 THEN "0" \o NatToStr(n) ELSE NatToStr(n)

Pad4(n) ==
    IF n < 10 THEN "000" \o NatToStr(n)
    ELSE IF n < 100 THEN "00" \o NatToStr(n)
    ELSE IF n < 1000 THEN "0" \o NatToStr(n)
    ELSE NatToStr(n)

Unsigned(s) == IF StartsWith(s, "-") THEN SubSeq(s, 2, Len(s)) ELSE s

Signed(s, n) == IF StartsWith(s, "-") THEN -n ELSE n

\* quotient rounded towards zero
Trunc(t, d) == IF t < 0 THEN -((-t) \div d) ELSE t \div d

(***************************************************************************)
(* The builtins the conversions call                                       *)
(***************************************************************************)
\* unicode(value); the unicode() of a list is not modelled
py_unicode(v) ==
    CASE v.kind = "str" -> v
      [] v.kind = "pickled" -> v
      [] v.kind = "int" -> Str(IntToStr(v.n))
      [] v.kind = "float" ->
            Str((IF v.tenths < 0 THEN "-" ELSE "")
                \o NatToStr(Trunc(IF v.tenths < 0 THEN -v.tenths ELSE v.tenths, 10))
                \o "."
                \o NatToStr((IF v.tenths < 0 THEN -v.tenths ELSE v.tenths) % 10))
      [] v.kind = "bool" -> Str(IF v.v THEN "True" ELSE "False")
      [] v.kind = "date" ->
            Str(Pad4(v.year) \o "-" \o Pad2(v.month) \o "-" \o Pad2(v.day))
      [] v.kind = "datetime" ->
            Str(Pad4(v.year) \o "-" \o Pad2(v.month) \o "-" \o Pad2(v.day)
                \o " " \o Pad2(v.hour) \o ":" \o Pad2(v.minute) \o ":"
                \o Pad2(v.second))

py_int(v) ==
    CASE v.kind = "int" -> v
      [] v.kind = "bool" -> Integer(IF v.v THEN 1 ELSE 0)
      [] v.kind = "float" -> Integer(Trunc(v.tenths, 10))
      [] v.kind = "str" ->
            IF AllDigits(Unsigned(v.text))
            THEN Integer(Signed(v.text, ParseNat(Unsigned(v.text))))
            ELSE Err("ValueError")
      [] v.kind = "pickled" -> Err("ValueError")
      [] OTHER -> Err("TypeError")

py_float(v) ==
    CASE v.kind = "float" -> v
      [] v.kind = "int" -> Float(10 * v.n)
      [] v.kind = "bool" -> Float(IF v.v THEN 10 ELSE 0)
      [] v.kind = "str" ->
            LET u == Unsigned(v.text)
                dot == Find(u, ".", 1)
            IN IF AllDigits(u) THEN Float(Signed(v.text, 10 * ParseNat(u)))
               ELSE IF /\ dot >= 2 /\ dot = Len(u) - 1
                       /\ AllDigits(SubSeq(u, 1, dot - 1))
                       /\ IsDigit(SubSeq(u, Len(u), Len(u)))
               THEN Float(Signed(v.text,
                        10 * ParseNat(SubSeq(u, 1, dot - 1))
                        + DigitVal(SubSeq(u, Len(u), Len(u)))))
               ELSE Err("ValueError")
      [] v.kind = "pickled" -> Err("ValueError")
      [] OTHER -> Err("TypeError")

py_bool(v) ==
    CASE v.kind = "bool" -> v
      [] v.kind = "none" -> Bool(FALSE)
      [] v.kind = "int" -> Bool(v.n # 0)
      [] v.kind = "float" -> Bool(v.tenths # 0)
      [] v.kind = "str" -> Bool(v.text # "")
      [] v.kind = "list" -> Bool(Len(v.items) # 0)
      [] OTHER -> Bool(TRUE)

\* list(value) mistaken for [value]
py_list_wrapped(v) == List(<<v>>)

py_list(v) ==
    CASE v.kind = "list" -> List(v.items)
      [] v.kind = "str" ->
            List([k \in 1..Len(v.text) |-> Str(SubSeq(v.text, k, k))])
      [] OTHER -> Err("TypeError")

(***************************************************************************)
(* DATETIME_REGEX and the date constructors                                *)
(***************************************************************************)
Whitespace == {" ", "\t", "\n", "\r"}

\* the characters of s from position k on that are whitespace, counted
RECURSIVE SpaceRun(_, _)
SpaceRun(s, k) ==
    IF k <= Len(s) /\ SubSeq(s, k, k) \in Whitespace
    THEN 1 + SpaceRun(s, k + 1)
    ELSE 0

DigitsAt(s, k, n) == k + n - 1 <= Len(s) /\ AllDigits(SubSeq(s, k, k + n - 1))

\* HH:MM:SS at position k, then '.*?$': no line break but a final one
TimeAt(s, k) ==
    /\ DigitsAt(s, k, 2) /\ StartsAt(s, ":", k + 2)
    /\ DigitsAt(s, k + 3, 2) /\ StartsAt(s, ":", k + 5)
    /\ DigitsAt(s, k + 6, 2)
    /\ \A j \in (k + 8)..Len(s) : SubSeq(s, j, j) = "\n" => j = Len(s)

DateAt(s) ==
    /\ DigitsAt(s, 1, 4) /\ StartsAt(s, "-", 5)
    /\ DigitsAt(s, 6, 2) /\ StartsAt(s, "-", 8)
    /\ DigitsAt(s, 9, 2)

\* DATETIME_REGEX with (\s+) in place of (T|\s+)
DATETIME_REGEX_whitespace_only(s) ==
    IF ~DateAt(s) THEN 0
    ELSE LET runs == {r \in 1..SpaceRun(s, 11) : TimeAt(s, 11 + r)}
         IN IF runs = {} THEN 0 ELSE 11 + SetMax(runs)

\* DATETIME_REGEX.search(s): where the hour group starts, 0 when s does not
\* match; the time follows 'T' or a run of whitespace
DATETIME_REGEX(s) ==
    IF ~DateAt(s) THEN 0
    ELSE IF StartsAt(s, "T", 11) /\ TimeAt(s, 12) THEN 12
    ELSE LET runs == {r \in 1..SpaceRun(s, 11) : TimeAt(s, 11 + r)}
         IN IF runs = {} THEN 0 ELSE 11 + SetMax(runs)

Group(s, k, n) == ParseNat(SubSeq(s, k, k + n - 1))

IsLeap(year) == year % 4 = 0 /\ (year % 100 # 0 \/ year % 400 = 0)

DaysInMonth(year, month) ==
    IF month = 2 THEN (IF IsLeap(year) THEN 29 ELSE 28)
    ELSE IF month \in {4, 6, 9, 11} THEN 30 ELSE 31

\* datetime_safe.date(year, month, day)
date(year, month, day) ==
    IF /\ year \in 1..9999 /\ month \in 1..12
       /\ day \in 1..DaysInMonth(year, month)
    THEN Date(year, month, day)
    ELSE Err("ValueError")

\* datetime_safe.datetime(year, month, day, hour, minute, second)
datetime(year, month, day, hour, minute, second) ==
    IF /\ date(year, month, day) # Err("ValueError")
       /\ hour \in 0..23 /\ minute \in 0..59 /\ second \in 0..59
    THEN DateTime(year, month, day, hour, minute, second)
    ELSE Err("ValueError")

(***************************************************************************)
(* convert of each field class                                             *)
(***************************************************************************)
FieldTypes ==
    {"SearchField", "CharField", "IntegerField", "FloatField", "BooleanField",
     "DateField", "DateTimeField", "MultiValueField", "PickleField"}

DateField_convert(v) ==
    IF v = None THEN None
    ELSE IF basestring(v)
    THEN IF v.kind = "str" /\ DATETIME_REGEX(v.text) # 0
         THEN date(Group(v.text, 1, 4), Group(v.text, 6, 2), Group(v.text, 9, 2))
         ELSE Err("SearchFieldError")
    ELSE v

DateTimeField_convert(v) ==
    IF v = None THEN None
    ELSE IF basestring(v)
    THEN IF v.kind = "str" /\ DATETIME_REGEX(v.text) # 0
         THEN LET t == DATETIME_REGEX(v.text)
              IN datetime(Group(v.text, 1, 4), Group(v.text, 6, 2),
                          Group(v.text, 9, 2), Group(v.text, t, 2),
                          Group(v.text, t + 3, 2), Group(v.text, t + 6, 2))
         ELSE Err("SearchFieldError")
    ELSE v

\* pickle.loads(base64.b64decode(value)); a string that is not an encoded
\* pickle fails in b64decode or in loads, with an exception no statement here
\* tells from another
PickleField_convert(v) ==
    IF v = None THEN None
    ELSE IF v.kind = "pickled" THEN v.of
    ELSE IF v.kind = "str" THEN Err("UnpicklingError")
    ELSE Err("TypeError")

MultiValueField_convert(v) == IF v = None THEN None ELSE py_list(v)

convert(class, v) ==
    CASE class = "SearchField" -> v
      [] class = "CharField" -> IF v = None THEN None ELSE py_unicode(v)
      [] class = "IntegerField" -> IF v = None THEN None ELSE py_int(v)
      [] class = "FloatField" -> IF v = None THEN None ELSE py_float(v)
      [] class = "BooleanField" -> IF v = None THEN None ELSE py_bool(v)
      [] class = "DateField" -> DateField_convert(v)
      [] class = "DateTimeField" -> DateTimeField_convert(v)
      [] class = "MultiValueField" -> MultiValueField_convert(v)
      [] class = "PickleField" -> PickleField_convert(v)

(***************************************************************************)
(* Converting a value, and converting the result again                     *)
(***************************************************************************)
Strings ==
    {"", "7", "-3", "3.5", "ab", "2009-02-25", "2009-02-25T10:30:05",
     "2009-02-25 10:30:05", "2009-02-25T10:30:05Z", "2009-02-25  10:30:05\n",
     "2009-02-25T10:30", "x2009-02-25T10:30:05", "2009-13-25T10:30:05",
     "2009-02-25T10:30:61", "2009-02-25T10:30:05\nx"}

Plain ==
    {None} \cup {Str(t) : t \in Strings}
    \cup {Integer(0), Integer(7), Integer(-3), Float(35), Float(-35), Float(0),
          Bool(TRUE), Bool(FALSE), List(<<>>), List(<<Integer(7), Str("ab")>>),
          Date(2009, 2, 25), DateTime(2009, 2, 25, 10, 30, 5)}

Pickles ==
    {Pickled(None), Pickled(Integer(7)), Pickled(Str("ab")),
     Pickled(List(<<Integer(7)>>)), Pickled(Pickled(Integer(7)))}

\* lists are not given to CharField: their unicode() is not modelled
Inputs(class) ==
    IF class = "PickleField" THEN Plain \cup Pickles
    ELSE IF class = "CharField" THEN {v \in Plain : v.kind # "list"}
    ELSE Plain

CInit ==
    /\ ftype \in FieldTypes /\ conv_in \in Inputs(ftype)
    /\ conv_out = None /\ conv_again = None /\ cpc = "start"

\* field.convert(value)
Convert ==
    /\ cpc = "start"
    /\ conv_out' = convert(ftype, conv_in)
    /\ cpc' = "once"
    /\ UNCHANGED <<ftype, conv_in, conv_again, notC>>

\* field.convert(field.convert(value)), when the first conversion succeeded
ConvertAgain ==
    /\ cpc = "once" /\ ~IsError(conv_out)
    /\ conv_again' = convert(ftype, conv_out)
    /\ cpc' = "twice"
    /\ UNCHANGED <<ftype, conv_in, conv_out, notC>>

ConvertInit == CInit /\ QIdle /\ EIdle /\ FIdle /\ AIdle /\ RIdle /\ IIdle /\ SIdle /\ LIdle /\ HIdle /\ GIdle /\ BIdle /\ KIdle

ConvertNext == Convert \/ ConvertAgain

SpecConvert == ConvertInit /\ [][ConvertNext]_vars

\* C9 as stated: for every field class and every value on which convert
\* succeeds, converting the result again succeeds and gives the same value.
C9_Original == cpc = "twice" => conv_again = conv_out

\* C9 amended: the same for every field class except PickleField, whose
\* convert decodes and is not to be applied to its own result.
C9_Amended == (cpc = "twice" /\ ftype # "PickleField") => conv_again = conv_out

\* a conversion that changed the value has been converted again
C9_Witness ==
    /\ cpc = "twice" /\ ftype \in {"MultiValueField", "DateField", "IntegerField"}
    /\ conv_out # conv_in /\ conv_again = conv_out

IsDateField == ftype \in {"DateField", "DateTimeField"}

Converted == cpc \in {"once", "twice"}

\* the form YYYY-MM-DD, optionally followed by THH:MM:SS
ClaimedForm(s) ==
    /\ DateAt(s)
    /\ \/ Len(s) = 10
       \/ Len(s) = 19 /\ StartsAt(s, "T", 11) /\ TimeAt(s, 12)

ClaimedValue(class, s) ==
    IF class = "DateField" \/ Len(s) = 10
    THEN date(Group(s, 1, 4), Group(s, 6, 2), Group(s, 9, 2))
    ELSE datetime(Group(s, 1, 4), Group(s, 6, 2), Group(s, 9, 2),
                  Group(s, 12, 2), Group(s, 15, 2), Group(s, 18, 2))

AcceptedForm(s) ==
    /\ DateAt(s)
    /\ \/ StartsAt(s, "T", 11) /\ TimeAt(s, 12)
       \/ \E r \in 1..Len(s) :
            /\ \A k \in 11..(10 + r) :
                 k <= Len(s) /\ SubSeq(s, k, k) \in Whitespace
            /\ TimeAt(s, 11 + r)

\* where HH:MM:SS stands in a string of the accepted form
TimeOf(s) == IF StartsAt(s, "T", 11) THEN 12 ELSE 11 + SpaceRun(s, 11)

\* the numbers of the string that the field uses name a calendar date, and
\* for a DateTimeField a time of day
NamesAMoment(class, s) ==
    /\ Group(s, 1, 4) >= 1 /\ Group(s, 6, 2) \in 1..12
    /\ Group(s, 9, 2) \in 1..DaysInMonth(Group(s, 1, 4), Group(s, 6, 2))
    /\ class = "DateTimeField" =>
         /\ Group(s, TimeOf(s), 2) <= 23
         /\ Group(s, TimeOf(s) + 3, 2) <= 59
         /\ Group(s, TimeOf(s) + 6, 2) <= 59

\* the text a date or datetime value prints as
Printed(class, s) ==
    SubSeq(s, 1, 10)
    \o (IF class = "DateField" THEN ""
        ELSE " " \o SubSeq(s, TimeOf(s), TimeOf(s) + 7))

RECURSIVE Replace(_, _, _)
Replace(s, old, new) ==
    IF Len(s) < Len(old) THEN s
    ELSE IF StartsWith(s, old)
    THEN new \o Replace(SubSeq(s, Len(old) + 1, Len(s)), old, new)
    ELSE SubSeq(s, 1, 1) \o Replace(SubSeq(s, 2, Len(s)), old, new)

attr_names == {"__dict__"}

\* the BaseResult itself, in the caller's hands
Result == [kind |-> "result"]

\* ResultAttr(name, obj, result); _result is the one BaseResult of the model
ResultAttr(name, o) == [kind |-> "proxy", _name |-> name, _obj |-> o]

is_denorm_attr(d, name) ==
    \E attr \in DOMAIN d : Contains(attr, name \o DOTATTR_SEPARATOR)

\* super(BaseResult, self).__getattribute__(name) finds the name
super_method(d, name) == name \in DOMAIN d

BaseResult_getattribute(d, name) ==
    IF name \in attr_names THEN [kind |-> "dict", attrs |-> d]
    ELSE IF super_method(d, name) THEN ResultAttr(name, d[name])
    ELSE LET flat == Replace(name, "__", DOTATTR_SEPARATOR)
         IN IF super_method(d, flat) THEN ResultAttr(flat, d[flat])
            ELSE IF ~is_denorm_attr(d, flat) THEN Err("AttributeError")
            ELSE IF super_method(d, flat) THEN ResultAttr(flat, d[flat])
            ELSE ResultAttr(flat, None)

\* ResultAttr.__getattribute__ looking the bare name up on the result
ResultAttr_getattribute_unprefixed(self, d, name) ==
    IF hasattr(self._obj, name) THEN getattr(self._obj, name)
    ELSE BaseResult_getattribute(d, name)

ResultAttr_getattribute(self, d, name) ==
    IF hasattr(self._obj, name) THEN getattr(self._obj, name)
    ELSE BaseResult_getattribute(d, self._name \o DOTATTR_SEPARATOR \o name)

\* __call__ forwarded to the wrapped value, as the other special names are
ResultAttr_call_forwarded(self, args) ==
    IF callable(self._obj) THEN self._obj.ret ELSE Err("TypeError")

\* ResultAttr.__call__(self, *args, **kwargs)
ResultAttr_call(self, args) == self

ResultAttr_eq(self, other) == Bool(self._obj = other)

ResultAttr_nonzero(self) == py_bool(self._obj)

\* str(value)
py_str(v) == IF v = None THEN force_unicode(v) ELSE py_unicode(v).text

ResultAttr_str(self) == Str(py_str(self._obj))

DictValues ==
    {None, Integer(40), Obj([n \in {"q"} |-> Integer(7)]), Callable(Integer(40))}

DictNames ==
    {"p", "q", "p0_0_0q", "p0_0_0d0_0_0q", "q0_0_0p0_0_0d0_0_0q"}

Dicts ==
    UNION {[N -> DictValues] : N \in {M \in SUBSET DictNames : Cardinality(M) <= MaxDict}}

ReadNames == {"p", "q", "d", "p__q", "__dict__"}

CallArgs == {<<>>, <<Integer(40)>>}

Others == {None, Integer(40)}

\* where the caller stands with what it got
Standing(v) ==
    IF IsError(v) THEN "raised" ELSE IF v.kind = "proxy" THEN "proxy" ELSE "value"

AInit ==
    /\ self_dict \in Dicts /\ held = Result /\ prev = None /\ chain = <<>>
    /\ seen = None /\ apc = "result"

\* result.name
Read(name) ==
    /\ apc = "result"
    /\ held' = BaseResult_getattribute(self_dict, name)
    /\ prev' = held /\ chain' = <<name>> /\ apc' = Standing(held')
    /\ UNCHANGED <<self_dict, seen, notA>>

\* proxy.name
ReadOn(name) ==
    /\ apc = "proxy" /\ Len(chain) < MaxChain
    /\ held' = ResultAttr_getattribute(held, self_dict, name)
    /\ prev' = held /\ chain' = Append(chain, name) /\ apc' = Standing(held')
    /\ UNCHANGED <<self_dict, seen, notA>>

\* proxy(*args)
Call(args) ==
    /\ apc = "proxy" /\ Len(chain) < MaxChain
    /\ held' = ResultAttr_call(held, args)
    /\ prev' = held /\ chain' = Append(chain, "()") /\ apc' = Standing(held')
    /\ UNCHANGED <<self_dict, seen, notA>>

\* proxy == other
Compare(other) ==
    /\ apc = "proxy"
    /\ seen' = [op |-> "__eq__", other |-> other, value |-> ResultAttr_eq(held, other)]
    /\ apc' = "seen"
    /\ UNCHANGED <<self_dict, held, prev, chain, notA>>

\* bool(proxy)
Test ==
    /\ apc = "proxy"
    /\ seen' = [op |-> "__nonzero__", other |-> None, value |-> ResultAttr_nonzero(held)]
    /\ apc' = "seen"
    /\ UNCHANGED <<self_dict, held, prev, chain, notA>>

\* str(proxy), of a wrapped None, number or string
Show ==
    /\ apc = "proxy" /\ held._obj.kind \in {"none", "int", "str"}
    /\ seen' = [op |-> "__str__", other |-> None, value |-> ResultAttr_str(held)]
    /\ apc' = "seen"
    /\ UNCHANGED <<self_dict, held, prev, chain, notA>>

AttrInit == AInit /\ QIdle /\ EIdle /\ FIdle /\ CIdle /\ RIdle /\ IIdle /\ SIdle /\ LIdle /\ HIdle /\ GIdle /\ BIdle /\ KIdle

AttrNext ==
    \/ \E name \in ReadNames : Read(name)
    \/ \E name \in ReadNames : ReadOn(name)
    \/ \E args \in CallArgs : Call(args)
    \/ \E other \in Others : Compare(other)
    \/ Test
    \/ Show

SpecAttr == AttrInit /\ [][AttrNext]_vars

\* names without a separator in them
Simple == {"p", "q", "d"}

\* result.p.q has been evaluated
TwoReads == Len(chain) = 2 /\ chain[1] \in Simple /\ chain[2] \in Simple

\* p<SEP>q for the two names read
Flattened == chain[1] \o DOTATTR_SEPARATOR \o chain[2]

\* == between what the caller holds and a value
EqualTo(h, v) == IF h.kind = "proxy" THEN h._obj = v ELSE h = v

\* some attribute lies under the flattened prefix
Under(d, prefix) ==
    \E a \in DOMAIN d : StartsWith(a, prefix \o DOTATTR_SEPARATOR)

\* C11 as stated: when the result has the attribute p<SEP>q = v, result.p.q
\* equals v whatever the direct attribute p is; and result.p.d raises
\* AttributeError when the result has neither p<SEP>d nor an attribute under
\* that prefix.
C11_Original ==
    TwoReads =>
        /\ Flattened \in DOMAIN self_dict =>
             EqualTo(held, self_dict[Flattened])
        /\ (Flattened \notin DOMAIN self_dict /\ ~Under(self_dict, Flattened)) =>
             held = Err("AttributeError")

\* the direct attribute p has an attribute of the second name itself
OwnAttribute ==
    chain[1] \in DOMAIN self_dict /\ hasattr(self_dict[chain[1]], chain[2])

\* C11 amended: the same, provided the direct value of p has no attribute q
\* (or d) of its own, which the proxy would return first; and the failure is
\* stated for results none of whose attribute names contains p<SEP>d<SEP>.
C11_Amended ==
    (TwoReads /\ ~OwnAttribute) =>
        /\ Flattened \in DOMAIN self_dict =>
             EqualTo(held, self_dict[Flattened])
        /\ (/\ Flattened \notin DOMAIN self_dict
            /\ ~\E a \in DOMAIN self_dict :
                  Contains(a, Flattened \o DOTATTR_SEPARATOR)) =>
             held = Err("AttributeError")

\* result.p.q gave the flattened value past a direct attribute p
C11_Witness ==
    /\ chain = <<"p", "q">> /\ "p" \in DOMAIN self_dict
    /\ self_dict["p"] # None /\ "p0_0_0q" \in DOMAIN self_dict
    /\ held = ResultAttr("p0_0_0q", self_dict["p0_0_0q"])

\* result.n has been evaluated, n not one of attr_names
OneRead == Len(chain) = 1 /\ chain[1] \notin attr_names

FlatName == Replace(chain[1], "__", DOTATTR_SEPARATOR)

\* C12 as stated: reading a name the result has neither directly nor in
\* flattened form raises AttributeError unless some attribute name begins with
\* the flattened name and the separator, and a proxy of None is returned only
\* when one does.
C12_Original ==
    (/\ OneRead /\ chain[1] \notin DOMAIN self_dict
     /\ FlatName \notin DOMAIN self_dict) =>
        IF Under(self_dict, FlatName)
        THEN held = ResultAttr(FlatName, None)
        ELSE held = Err("AttributeError")

\* the last step was a call of a proxy
Called == chain # <<>> /\ Last(chain) = "()"

\* C13 as stated: calling a proxy of a callable value yields what calling the
\* value yields.
C13_Original ==
    (Called /\ callable(prev._obj)) => EqualTo(held, prev._obj.ret)

\* bool(value) of the values a result holds
Truth(v) == v # None /\ v # Integer(0) /\ v # Str("")

\* C13 amended: calling a proxy returns the proxy itself, whatever the
\* arguments and whatever it wraps; ==, bool() and str() of a proxy give those
\* of the wrapped value.
C13_Amended ==
    /\ Called => held = prev
    /\ apc = "seen" =>
         CASE seen.op = "__eq__" -> seen.value = Bool(held._obj = seen.other)
           [] seen.op = "__nonzero__" -> seen.value = Bool(Truth(held._obj))
           [] seen.op = "__str__" ->
                seen.value = (IF held._obj = None THEN Str("None")
                              ELSE IF held._obj.kind = "int"
                              THEN Str(IntToStr(held._obj.n))
                              ELSE held._obj)

\* a proxy of a callable was called and then compared
C13_Witness ==
    /\ Called /\ callable(held._obj) /\ apc = "seen"
    /\ seen.op = "__eq__" /\ seen.value = Bool(FALSE)

(***************************************************************************)
(* SearchResult (haystack/models.py)                                       *)
(***************************************************************************)
\* the attributes SearchResult.__init__ sets before it looks at kwargs
InstanceNames ==
    {"app_label", "model_name", "pk", "score", "_object", "_model",
     "_verbose_name", "_additional_fields", "stored_fields", "log",
     "_index_class"}

\* SearchResult.__dict__.keys()
ClassKeys ==
    {"__module__", "__doc__", "__init__", "__repr__", "__unicode__",
     "__getattribute__", "process_attr_error", "_get_object", "_set_object",
     "object", "_get_model", "_set_model", "model", "_get_verbose_name",
     "verbose_name", "_get_verbose_name_plural", "verbose_name_plural",
     "content_type", "get_additional_fields", "get_stored_fields"}

\* the class attributes that are properties
Properties == {"object", "model", "verbose_name", "verbose_name_plural"}

Logger == [kind |-> "logger"]

\* a model class, and an instance of it
Model == [kind |-> "model"]

Row(n) == [kind |-> "row", n |-> n]

\* _additional_fields is a list in the order of kwargs.items(), which is not
\* fixed; it is held as the set of its elements
SearchResult_init(app_label, model_name, pk, score, kw) ==
    LET base == [n \in InstanceNames |->
                    CASE n = "app_label" -> app_label
                      [] n = "model_name" -> model_name
                      [] n = "pk" -> pk
                      [] n = "score" -> score
                      [] n = "log" -> Logger
                      [] OTHER -> None]
        kept == {key \in DOMAIN kw : key \notin DOMAIN base}
    IN [n \in InstanceNames \cup kept |->
            IF n = "_additional_fields" THEN kept
            ELSE IF n \in InstanceNames THEN base[n]
            ELSE kw[n]]

\* models.get_model(self.app_label, self.model_name)
get_model(reg) == IF reg THEN Model ELSE None

\* self.model._default_manager.get(pk=self.pk)
manager_get(rw) == IF rw = None THEN Err("ObjectDoesNotExist") ELSE rw

_get_model(d, reg) ==
    IF d["_model"] = None
    THEN [sr |-> [d EXCEPT !["_model"] = get_model(reg)], value |-> get_model(reg)]
    ELSE [sr |-> d, value |-> d["_model"]]

\* _get_object without its except clause
_get_object_uncaught(d, reg, rw) ==
    IF d["_object"] = None
    THEN LET m == _get_model(d, reg)
         IN IF m.value = None
            THEN [sr |-> m.sr, value |-> None, looked |-> 0, errors |-> 1]
            ELSE [sr |-> IF IsError(manager_get(rw)) THEN m.sr
                         ELSE [m.sr EXCEPT !["_object"] = manager_get(rw)],
                  value |-> manager_get(rw), looked |-> 1, errors |-> 0]
    ELSE [sr |-> d, value |-> d["_object"], looked |-> 0, errors |-> 0]

\* the new __dict__, the value returned, and the manager.get and log.error
\* calls made
_get_object(d, reg, rw) ==
    IF d["_object"] = None
    THEN LET m == _get_model(d, reg)
         IN IF m.value = None
            THEN [sr |-> m.sr, value |-> None, looked |-> 0, errors |-> 1]
            ELSE IF manager_get(rw) = Err("ObjectDoesNotExist")
            THEN [sr |-> [m.sr EXCEPT !["_object"] = None], value |-> None,
                  looked |-> 1, errors |-> 1]
            ELSE [sr |-> [m.sr EXCEPT !["_object"] = manager_get(rw)],
                  value |-> manager_get(rw), looked |-> 1, errors |-> 0]
    ELSE [sr |-> d, value |-> d["_object"], looked |-> 0, errors |-> 0]

_set_object(d, o) == [d EXCEPT !["_object"] = o]

\* SearchResult.__getattribute__(name) for a name of _additional_fields, which
\* __dict__ holds: a property of the class comes before the __dict__ entry
SearchResult_getattribute(d, reg, name) ==
    IF name \in {"__dict__", "_additional_fields"} \cup ClassKeys
    THEN IF name = "model" THEN _get_model(d, reg).value
         ELSE d[name]
    ELSE IF /\ name \in DOMAIN d /\ name \notin d["_additional_fields"]
            /\ ~is_denorm_attr(d, name)
    THEN d[name]
    ELSE BaseResult_getattribute(d, name)

get_additional_fields(d, reg) ==
    [fieldname \in d["_additional_fields"] |->
        SearchResult_getattribute(d, reg, fieldname)]

ExtraKeys == {"title", "log", "model", "content_type"}

ExtraValues == {Str("v"), Integer(40)}

Kwargs ==
    UNION {[N -> ExtraValues] :
             N \in {M \in SUBSET ExtraKeys : Cardinality(M) <= MaxExtra}}

Rows == {None, Row(1)}

RInit ==
    /\ kwargs \in Kwargs /\ registered \in BOOLEAN /\ row \in Rows
    /\ sr = SearchResult_init(Str("core"), Str("mockmodel"), Integer(1),
                              Float(5), kwargs)
    /\ lookups = 0 /\ logged = 0 /\ reads = 0 /\ sets = 0 /\ returned = None
    /\ additional = None /\ rpc = "built"

\* result.object
ReadObject ==
    /\ rpc = "built" /\ reads + sets < MaxOps
    /\ LET r == _get_object(sr, registered, row)
       IN /\ sr' = r.sr /\ returned' = r.value
          /\ lookups' = lookups + r.looked /\ logged' = logged + r.errors
    /\ reads' = reads + 1
    /\ UNCHANGED <<kwargs, registered, row, sets, additional, rpc, notR>>

\* result.object = o
AssignObject(o) ==
    /\ rpc = "built" /\ reads + sets < MaxOps
    /\ sr' = _set_object(sr, o)
    /\ sets' = sets + 1
    /\ UNCHANGED <<kwargs, registered, row, lookups, logged, reads, returned,
                   additional, rpc, notR>>

\* result.get_additional_fields(); reading a field named model resolves and
\* keeps the model
GetAdditionalFields ==
    /\ rpc = "built"
    /\ additional' = get_additional_fields(sr, registered)
    /\ sr' = IF "model" \in sr["_additional_fields"]
             THEN _get_model(sr, registered).sr ELSE sr
    /\ UNCHANGED <<kwargs, registered, row, lookups, logged, reads, sets,
                   returned, rpc, notR>>

ResultInit == RInit /\ QIdle /\ EIdle /\ FIdle /\ CIdle /\ AIdle /\ IIdle /\ SIdle /\ LIdle /\ HIdle /\ GIdle /\ BIdle /\ KIdle

ResultNext ==
    \/ ReadObject
    \/ \E o \in {None, Row(2)} : AssignObject(o)
    \/ GetAdditionalFields

SpecResult == ResultInit /\ [][ResultNext]_vars

\* C14 as stated: with no assignment to the property, at most one lookup is
\* issued however many times it is read, whether the row is found or not.
C14_Original == sets = 0 => lookups <= 1

\* C15: a read of the property never raises on a miss or an unresolvable
\* model: when the row is missing it logs an error and yields None, and when
\* the model does not resolve it logs an error and yields None without a
\* lookup.
C15_Theorem ==
    [][(reads' = reads + 1 /\ sr["_object"] = None) =>
          /\ ~registered =>
               /\ returned' = None /\ logged' = logged + 1
               /\ lookups' = lookups
          /\ (registered /\ row = None) =>
               /\ returned' = None /\ logged' = logged + 1
               /\ lookups' = lookups + 1]_vars

\* the property was read and the row was missing
C15_Witness ==
    /\ reads >= 1 /\ sets = 0 /\ registered /\ row = None
    /\ returned = None /\ logged >= 1 /\ lookups >= 1

\* C16 as stated: get_additional_fields() has exactly the keys the
\* constructor was given as extra fields, each with a value equal to the one
\* given.
C16_Original ==
    additional # None =>
        /\ DOMAIN additional = DOMAIN kwargs
        /\ \A key \in DOMAIN kwargs \cap DOMAIN additional :
             EqualTo(additional[key], kwargs[key])

(***************************************************************************)
(* get_identifier (haystack/utils/__init__.py)                             *)
(***************************************************************************)
WordChars == "abcdefghijklmnopqrstuvwxyzABCDEFGHIJKLMNOPQRSTUVWXYZ0123456789_"

\* [\w\d_]
IsWord(c) == \E k \in 1..Len(WordChars) : SubSeq(WordChars, k, k) = c

\* [\w\d_]+ is all of s[from..to]
WordRun(s, from, to) ==
    from <= to /\ \A k \in from..to : IsWord(SubSeq(s, k, k))

\* IDENTIFIER_REGEX.match(s): ^[\w\d_]+\.[\w\d_]+\.\d+$, where $ is the end of
\* the string or the place before a last line break
IDENTIFIER_REGEX(s) ==
    \E i, j \in 1..Len(s) :
        /\ i < j
        /\ WordRun(s, 1, i - 1) /\ SubSeq(s, i, i) = "."
        /\ WordRun(s, i + 1, j - 1) /\ SubSeq(s, j, j) = "."
        /\ \E e \in {Len(s), Len(s) - 1} :
             /\ e > j /\ AllDigits(SubSeq(s, j + 1, e))
             /\ e < Len(s) => SubSeq(s, Len(s), Len(s)) = "\n"

\* a model instance, as far as get_identifier reads it
Instance(app_label, module_name, pk) ==
    [kind |-> "instance", app_label |-> app_label,
     module_name |-> module_name, pk |-> pk]

get_identifier(x) ==
    IF basestring(x)
    THEN IF ~IDENTIFIER_REGEX(x.text) THEN Err("AttributeError") ELSE x
    ELSE Str(x.app_label \o "." \o x.module_name \o "." \o py_str(x.pk))

Labels == {"", "core", "a_b", "c-d", "1"}

Keys == {"", "1", "23", "x", "1a"}

Tails == {"", "\n", "\n\n", " ", ".4"}

Identifiers ==
    {a \o "." \o b \o "." \o k \o t : a \in Labels, b \in Labels, k \in Keys, t \in Tails}
    \cup {a \o "." \o k : a \in Labels, k \in Keys} \cup {"", "\n"}

\* the primary keys: of an AutoField, of a CharField, of an unsaved instance
PrimaryKeys == {Integer(1), Integer(23), Str("x1"), None}

Instances ==
    {Instance(a, b, k) : a \in {"core"}, b \in {"mockmodel"}, k \in PrimaryKeys}

IInit ==
    /\ obj_or_string \in {Str(t) : t \in Identifiers} \cup Instances
    /\ identifier = None /\ again = None /\ ipc = "start"

GetIdentifier ==
    /\ ipc = "start"
    /\ identifier' = get_identifier(obj_or_string)
    /\ ipc' = "done"
    /\ UNCHANGED <<obj_or_string, again, notI>>

\* get_identifier(identifier), for an identifier that was returned
GetIdentifierAgain ==
    /\ ipc = "done" /\ ~IsError(identifier)
    /\ again' = get_identifier(identifier)
    /\ ipc' = "again"
    /\ UNCHANGED <<obj_or_string, identifier, notI>>

IdentInit == IInit /\ QIdle /\ EIdle /\ FIdle /\ CIdle /\ AIdle /\ RIdle /\ SIdle /\ LIdle /\ HIdle /\ GIdle /\ BIdle /\ KIdle

IdentNext == GetIdentifier \/ GetIdentifierAgain

SpecIdent == IdentInit /\ [][IdentNext]_vars

\* two non-empty word segments and a non-empty run of digits, joined by dots
WellFormed(s) ==
    LET parts == Split(s, ".")
    IN /\ Len(parts) = 3
       /\ WordRun(parts[1], 1, Len(parts[1]))
       /\ WordRun(parts[2], 1, Len(parts[2]))
       /\ AllDigits(parts[3])

\* C17 as stated: a string is returned unchanged exactly when it is two
\* non-empty alphanumeric/underscore segments and a non-empty all-digit key
\* separated by dots; every other string raises AttributeError.
C17_Original ==
    (ipc = "done" /\ obj_or_string.kind = "str") =>
        IF WellFormed(obj_or_string.text) THEN identifier = obj_or_string
        ELSE identifier = Err("AttributeError")

\* C29 as stated: the identifier built from an object is accepted by
\* get_identifier and returned unchanged, whatever the type of the primary key.
C29_Original ==
    (ipc = "again" /\ obj_or_string.kind = "instance") => again = identifier

(***************************************************************************)
(* filter(field=None) and exclude(field=None) against an index             *)
(***************************************************************************)
\* the names documents are indexed under
IndexFields == {"title", "tag0_0_0name", "tag0_0_0index"}

\* whether a document with these fields matches the query, for the two forms
\* a lookup of None compiles to: NOT (field:[* TO *]) and field:[* TO *]
Matches(fields, q) ==
    IF StartsWith(q, "NOT (")
    THEN SubSeq(q, 6, Len(q) - Len(":[* TO *])")) \notin fields
    ELSE SubSeq(q, 1, Len(q) - Len(":[* TO *]")) \in fields

\* the query filter of filter(**{key: None}) and of exclude(**{key: None})
query_filter(key, negated) ==
    IF negated THEN invert(SQ(<<Leaf(key, None)>>))
    ELSE SQ(<<Leaf(key, None)>>)

\* the backend's search(query_string): the documents that match
search(docs, q) == {d \in DOMAIN docs : Matches(docs[d], q)}

FilterKeys == {"title", "tag__name", "tag__index"}

SInit ==
    /\ documents \in UNION {[1..n -> SUBSET IndexFields] : n \in 0..MaxDocs}
    /\ kwarg = "" /\ negate_it = FALSE /\ query_string = "" /\ selected = {}
    /\ spc = "indexed"

\* SearchQuerySet().filter(**{key: None})
Filter(key) ==
    /\ spc = "indexed"
    /\ kwarg' = key /\ negate_it' = FALSE
    /\ query_string' = as_query_string(query_filter(key, FALSE))
    /\ selected' = search(documents, query_string')
    /\ spc' = "searched"
    /\ UNCHANGED <<documents, notS>>

\* SearchQuerySet().exclude(**{key: None})
Exclude(key) ==
    /\ spc = "indexed"
    /\ kwarg' = key /\ negate_it' = TRUE
    /\ query_string' = as_query_string(query_filter(key, TRUE))
    /\ selected' = search(documents, query_string')
    /\ spc' = "searched"
    /\ UNCHANGED <<documents, notS>>

SearchInit == SInit /\ QIdle /\ EIdle /\ FIdle /\ CIdle /\ AIdle /\ RIdle /\ IIdle /\ LIdle /\ HIdle /\ GIdle /\ BIdle /\ KIdle

SearchNext ==
    \/ \E key \in FilterKeys : Filter(key)
    \/ \E key \in FilterKeys : Exclude(key)

SpecSearch == SearchInit /\ [][SearchNext]_vars

\* the name the field of a lookup key is indexed under
IndexedAs(key) == Replace(key, "__", DOTATTR_SEPARATOR)

Lacking(key) == {d \in DOMAIN documents : IndexedAs(key) \notin documents[d]}

\* C19 as stated: a filter on field = None selects exactly the documents
\* lacking the field, an exclude exactly those having it; the exclude count
\* is the total less the number of documents lacking the field.
C19_Original ==
    spc = "searched" =>
        IF negate_it
        THEN /\ selected = DOMAIN documents \ Lacking(kwarg)
             /\ Cardinality(selected) =
                  Cardinality(DOMAIN documents) - Cardinality(Lacking(kwarg))
        ELSE selected = Lacking(kwarg)

(***************************************************************************)
(* Iterating over a SearchQuerySet                                         *)
(***************************************************************************)
\* the primary keys start+1 .. start+n
Run(start, n) == [k \in 1..n |-> Integer(start + k)]

\* the backend's slice [start:end] of n hits read one place too early
backend_slice_early(n, start, end) ==
    IF start >= n THEN <<>>
    ELSE Run(start - 1, (IF end < n THEN end ELSE n) - start)

\* the backend's answer to a fetch of [start:end] when it has n hits: the
\* hits in its order, which is that of their primary keys 1..n
backend_slice(n, start, end) ==
    IF start >= n THEN <<>>
    ELSE Run(start, (IF end < n THEN end ELSE n) - start)

\* a cache that holds the fetched results and nothing else
fill_cache_fresh(cache, count, start, results) ==
    [k \in 1..count |->
        IF k > start /\ k <= start + Len(results) THEN results[k - start]
        ELSE None]

\* the cache once the count is known, with the fetched results put in place
fill_cache(cache, count, start, results) ==
    [k \in 1..count |->
        IF k > start /\ k <= start + Len(results) THEN results[k - start]
        ELSE IF k <= Len(cache) THEN cache[k]
        ELSE None]

LInit ==
    /\ backend_hits \in 0..MaxHits /\ page_size \in 1..MaxPage
    /\ _result_cache = <<>> /\ hit_count = None /\ queries = <<>>
    /\ iter_kind = "" /\ position = 0 /\ page = <<>> /\ yielded = <<>>
    /\ lpc = "fresh" /\ touch = None /\ touches = 0

\* iter(sqs), or sqs._manual_iter()
IterStart(kind) ==
    /\ lpc = "fresh"
    /\ iter_kind' = kind /\ lpc' = "iterating"
    /\ UNCHANGED <<backend_hits, page_size, _result_cache, hit_count, queries,
                   position, page, yielded, touch, touches, notL>>

\* the iteration has nothing left to yield and the count is not covered: it
\* fetches the next page, and the full iteration puts it in the cache
IterFetch ==
    /\ lpc = "iterating" /\ page = <<>>
    /\ IF hit_count = None THEN TRUE ELSE position < hit_count.n
    /\ LET results == backend_slice(backend_hits, position, position + page_size)
       IN /\ queries' = Append(queries, [start |-> position,
                                         end |-> position + page_size])
          /\ hit_count' = Integer(backend_hits)
          /\ page' = results
          /\ _result_cache' =
               IF iter_kind = "iter"
               THEN fill_cache(_result_cache, backend_hits, position, results)
               ELSE _result_cache
    /\ UNCHANGED <<backend_hits, page_size, iter_kind, position, yielded, lpc,
                   touch, touches, notL>>

\* the iteration yields the next result
IterYield ==
    /\ lpc = "iterating" /\ page # <<>>
    /\ yielded' = Append(yielded, Head(page))
    /\ page' = Tail(page) /\ position' = position + 1
    /\ UNCHANGED <<backend_hits, page_size, _result_cache, hit_count, queries,
                   iter_kind, lpc, touch, touches, notL>>

\* the count is covered: the iteration ends
IterStop ==
    /\ lpc = "iterating" /\ page = <<>>
    /\ hit_count # None /\ position >= hit_count.n
    /\ lpc' = "done"
    /\ UNCHANGED <<backend_hits, page_size, _result_cache, hit_count, queries,
                   iter_kind, position, page, yielded, touch, touches, notL>>

LazyInit ==
    LInit /\ QIdle /\ EIdle /\ FIdle /\ CIdle /\ AIdle /\ RIdle /\ IIdle /\ SIdle
          /\ HIdle /\ GIdle /\ BIdle /\ KIdle

LazyNext ==
    \/ \E kind \in {"iter", "manual"} : IterStart(kind)
    \/ IterFetch
    \/ IterYield
    \/ IterStop

SpecLazy == LazyInit /\ [][LazyNext]_vars

\* ceil(n / p)
Ceil(n, p) == (n + p - 1) \div p

\* the n results once each, in the backend's order
InOrder(n) == yielded = [k \in 1..n |-> Integer(k)]

\* every fetch starts where the one before ended, the first at offset 0
Paged ==
    \A k \in 1..Len(queries) : queries[k].start = (k - 1) * page_size

\* no position of the shared cache holds a result
Unfilled == \A k \in 1..Len(_result_cache) : _result_cache[k] = None

LowerChar(c) == IF c = "A" THEN "a" ELSE IF c = "B" THEN "b" ELSE c

RECURSIVE lower(_)
lower(t) ==
    IF t = "" THEN ""
    ELSE LowerChar(SubSeq(t, 1, 1)) \o lower(SubSeq(t, 2, Len(t)))

\* the while loop of find_highlightable_words for one word: the offsets of
\* its occurrences from start_offset on, each search starting after the last
RECURSIVE word_positions(_, _, _)
word_positions(lower_text_block, word, start_offset) ==
    IF start_offset >= Len(lower_text_block) THEN <<>>
    ELSE LET next_offset == Find(lower_text_block, word, start_offset + 1) - 1
         IN IF next_offset = -1 THEN <<>>
            ELSE <<next_offset>>
                 \o word_positions(lower_text_block, word,
                                   next_offset + Len(word))

find_highlightable_words(t, words) ==
    [word \in words |-> word_positions(lower(t), word, 0)]

\* words_found.extend(offset_list) over the items of the dict
RECURSIVE extend_all(_, _)
extend_all(locations, words) ==
    IF words = {} THEN <<>>
    ELSE LET word == CHOOSE w \in words : TRUE
         IN locations[word] \o extend_all(locations, words \ {word})

\* sorted(words_found)
RECURSIVE sorted(_)
sorted(seq) ==
    IF Len(seq) <= 1 THEN seq
    ELSE LET least == CHOOSE k \in 1..Len(seq) :
                          \A j \in 1..Len(seq) : seq[k] <= seq[j]
         IN <<seq[least]>>
            \o sorted(SubSeq(seq, 1, least - 1) \o SubSeq(seq, least + 1, Len(seq)))

\* the inner loop of find_window: 'for end in words_found[count + 1:]'
RECURSIVE density_loop(_, _, _, _)
density_loop(st, start, ends, length) ==
    IF ends = <<>> THEN st
    ELSE LET current_density ==
                 IF Head(ends) - start < length THEN st.current_density + 1
                 ELSE 0
         IN density_loop(
                IF current_density > st.highest_density
                THEN [best_start |-> start, best_end |-> start + length,
                      highest_density |-> current_density,
                      current_density |-> current_density]
                ELSE [st EXCEPT !.current_density = current_density],
                start, Tail(ends), length)

\* the outer loop: 'for count, start in enumerate(words_found[:-1])'
RECURSIVE window_loop(_, _, _, _)
window_loop(st, words_found, count, length) ==
    IF count > Len(words_found) - 1 THEN st
    ELSE window_loop(
             density_loop([st EXCEPT !.current_density = 1], words_found[count],
                          SubSeq(words_found, count + 1, Len(words_found)),
                          length),
             words_found, count + 1, length)

find_window(locations, length) ==
    LET words_found == extend_all(locations, DOMAIN locations)
        st == window_loop([best_start |-> 0, best_end |-> length,
                           highest_density |-> 0, current_density |-> 0],
                          sorted(words_found), 1, length)
    IN IF DOMAIN locations = {} THEN <<0, length>>
       ELSE IF Len(words_found) = 0 THEN <<0, length>>
       ELSE IF Len(words_found) = 1
       THEN <<words_found[1], words_found[1] + length>>
       ELSE <<st.best_start, st.best_end>>

Chars == {"a", "b", "x", "A"}

RECURSIVE TextBlocks(_)
TextBlocks(n) ==
    IF n = 0 THEN {""}
    ELSE TextBlocks(n - 1) \cup {t \o c : t \in TextBlocks(n - 1), c \in Chars}

QueryWords == {"a", "ab", "b"}

HInit ==
    /\ text_block \in TextBlocks(MaxText)
    /\ query_words \in SUBSET QueryWords
    /\ max_length \in 1..MaxWindow
    /\ highlight_locations = <<>> /\ window = <<0, 0>> /\ hpc = "start"

\* highlight_locations = self.find_highlightable_words()
FindHighlightableWords ==
    /\ hpc = "start"
    /\ highlight_locations' = find_highlightable_words(text_block, query_words)
    /\ hpc' = "found"
    /\ UNCHANGED <<text_block, query_words, max_length, window, notH>>

\* start_offset, end_offset = self.find_window(highlight_locations)
FindWindow ==
    /\ hpc = "found"
    /\ window' = find_window(highlight_locations, max_length)
    /\ hpc' = "done"
    /\ UNCHANGED <<text_block, query_words, max_length, highlight_locations,
                   notH>>

HighlightInit ==
    HInit /\ QIdle /\ EIdle /\ FIdle /\ CIdle /\ AIdle /\ RIdle /\ IIdle /\ SIdle
          /\ LIdle /\ GIdle /\ BIdle /\ KIdle

HighlightNext == FindHighlightableWords \/ FindWindow

SpecHighlight == HighlightInit /\ [][HighlightNext]_vars

\* the occurrences found: a query word and the offset it was found at
Occurrences ==
    UNION {{<<word, highlight_locations[word][k]>> :
                k \in 1..Len(highlight_locations[word])} :
           word \in DOMAIN highlight_locations}

\* the occurrences lying within max_length of the offset
Within(offset) ==
    Cardinality({occ \in Occurrences :
                    occ[2] >= offset /\ occ[2] - offset < max_length})

\* C30 as stated: when a query word occurs, find_window returns
\* (start, start + max_length) for the found offset start that has the most
\* occurrences within max_length of it, the earliest on ties; when none
\* occurs it returns (0, max_length).
C30_Original ==
    hpc = "done" =>
        IF Occurrences = {} THEN window = <<0, max_length>>
        ELSE \E occ \in Occurrences :
                /\ window = <<occ[2], occ[2] + max_length>>
                /\ \A other \in Occurrences :
                      \/ Within(other[2]) < Within(occ[2])
                      \/ Within(other[2]) = Within(occ[2]) /\ other[2] >= occ[2]

(***************************************************************************)
(* The query log: backends.queries                                         *)
(***************************************************************************)
\* the log with every run entered, whatever the debug flag
log_query_always(log, debug, qs) ==
    Append(log, [query_string |-> qs])

\* what a run leaves in the log: an entry with its query string when the
\* debug flag is on
log_query(log, debug, qs) ==
    IF debug THEN Append(log, [query_string |-> qs]) ELSE log

\* backends.reset_search_queries()
reset_search_queries(log) == <<>>

\* the query strings of test_log_query, '*:*' being the query without filter
QueryStrings == {"*:*", "name:bar", "(name:bar AND text:moof)"}

GInit ==
    /\ DEBUG \in BOOLEAN /\ search_queries = <<>> /\ ran = "" /\ gpc = "start"

\* SearchQuery.run() for a query that compiles to qs
RunQuery(qs) ==
    /\ Len(search_queries) < MaxLog
    /\ search_queries' = log_query(search_queries, DEBUG, qs)
    /\ ran' = qs /\ gpc' = "run"
    /\ UNCHANGED <<DEBUG, notG>>

\* settings.DEBUG = flag
SetDebug(flag) ==
    /\ DEBUG' = flag /\ gpc' = "debug"
    /\ UNCHANGED <<search_queries, ran, notG>>

ResetSearchQueries ==
    /\ search_queries' = reset_search_queries(search_queries)
    /\ gpc' = "reset"
    /\ UNCHANGED <<DEBUG, ran, notG>>

LogInit ==
    GInit /\ QIdle /\ EIdle /\ FIdle /\ CIdle /\ AIdle /\ RIdle /\ IIdle /\ SIdle
          /\ LIdle /\ HIdle /\ BIdle /\ KIdle

LogNext ==
    \/ \E qs \in QueryStrings : RunQuery(qs)
    \/ \E flag \in BOOLEAN : SetDebug(flag)
    \/ ResetSearchQueries

SpecLog == LogInit /\ [][LogNext]_vars

\* C24: a run with the debug flag on appends one entry carrying its query
\* string to the log, a run with the flag off appends nothing, a change of the
\* flag leaves the log alone, and only a reset removes entries, all of them.
C24_Theorem ==
    [][/\ (gpc' = "run" /\ DEBUG) =>
              search_queries' = Append(search_queries, [query_string |-> ran'])
       /\ (gpc' = "run" /\ ~DEBUG) => search_queries' = search_queries
       /\ gpc' = "debug" => search_queries' = search_queries
       /\ gpc' = "reset" => search_queries' = <<>>
       /\ gpc' # "reset" =>
              /\ Len(search_queries') >= Len(search_queries)
              /\ SubSeq(search_queries', 1, Len(search_queries)) = search_queries
      ]_vars

\* a run with the flag on followed one that was logged, and was logged too
C24_Witness ==
    /\ gpc = "run" /\ DEBUG /\ Len(search_queries) = 2
    /\ search_queries[2].query_string = ran
    /\ search_queries[1].query_string = "name:bar"
    /\ ran = "(name:bar AND text:moof)"

(***************************************************************************)
(* The backend boundary: SearchBackend against a search engine             *)
(***************************************************************************)
\* the operations of test_all_cases; clear_models is clear([MockModel])
Operations ==
    {"update", "remove", "search", "more_like_this", "clear_models", "clear"}

IsQuery(operation) == operation \in {"search", "more_like_this"}

\* the hit set of a query: the hits and their number
Hits(docs) == [hits |-> Cardinality(docs), results |-> docs]

\* what a call returns when the engine fails: an empty hit set for a query,
\* nothing for a mutation
neutral(operation) == IF IsQuery(operation) THEN Hits({}) ELSE None

\* a failure that is logged and raised again to the caller
on_failure_raised(operation, docs) ==
    [index |-> docs, returned |-> None, raised |-> TRUE,
     logged |-> <<[operation |-> operation]>>, requests |-> 1]

\* the boundary on a failure: one record logged, the neutral result returned,
\* the engine asked once
on_failure(operation, docs) ==
    [index |-> docs, returned |-> neutral(operation), raised |-> FALSE,
     logged |-> <<[operation |-> operation]>>, requests |-> 1]

\* the boundary when the engine answers
on_success(operation, docs, objs) ==
    [index |-> CASE operation = "update" -> docs \cup objs
                 [] operation = "remove" -> docs \ objs
                 [] operation \in {"clear_models", "clear"} -> {}
                 [] OTHER -> docs,
     returned |-> CASE operation = "search" -> Hits(docs)
                    [] operation = "more_like_this" -> Hits(docs \ objs)
                    [] OTHER -> None,
     raised |-> FALSE, logged |-> <<>>, requests |-> 1]

backend_call(operation, docs, objs, fails) ==
    IF fails THEN on_failure(operation, docs)
    ELSE on_success(operation, docs, objs)

\* the sample objects, by primary key
SampleObjs == {1, 2}

\* the objects an operation is handed: a batch, one object, or none
Arguments(operation) ==
    CASE operation = "update" -> SUBSET SampleObjs \ {{}}
      [] operation \in {"remove", "more_like_this"} ->
            {{o} : o \in SampleObjs}
      [] OTHER -> {{}}

BInit ==
    /\ failing \in BOOLEAN /\ solr_index \in SUBSET SampleObjs
    /\ logs_seen = <<>> /\ outcome = None /\ bpc = "start"

\* sb.update(...), sb.remove(...), sb.search(...), sb.more_like_this(...),
\* sb.clear(...)
BackendCall(operation, objs) ==
    /\ Len(logs_seen) < MaxLog
    /\ LET call == backend_call(operation, solr_index, objs, failing)
       IN /\ solr_index' = call.index
          /\ logs_seen' = logs_seen \o call.logged
          /\ outcome' = [kind |-> "outcome", operation |-> operation,
                         failed |-> failing, returned |-> call.returned,
                         raised |-> call.raised, requests |-> call.requests]
    /\ bpc' = "called"
    /\ UNCHANGED <<failing, notB>>

\* settings.HAYSTACK_SOLR_URL is pointed at, or away from, a URL that does
\* not exist
SetUrl(bad) ==
    /\ failing' = bad /\ bpc' = "url"
    /\ UNCHANGED <<solr_index, logs_seen, outcome, notB>>

BackendInit ==
    BInit /\ QIdle /\ EIdle /\ FIdle /\ CIdle /\ AIdle /\ RIdle /\ IIdle /\ SIdle
          /\ LIdle /\ HIdle /\ GIdle /\ KIdle

BackendNext ==
    \/ \E operation \in Operations :
          \E objs \in Arguments(operation) : BackendCall(operation, objs)
    \/ \E bad \in BOOLEAN : SetUrl(bad)

SpecBackend == BackendInit /\ [][BackendNext]_vars

\* C25: a backend operation that meets a failure returns the neutral result
\* (an empty hit set for a query, nothing for a mutation, the index left as
\* it was), logs exactly one record for the call, raises nothing and asks the
\* engine once.
C25_Theorem ==
    [][(bpc' = "called" /\ failing) =>
          /\ outcome'.raised = FALSE
          /\ outcome'.returned = (IF IsQuery(outcome'.operation)
                                  THEN [hits |-> 0, results |-> {}] ELSE None)
          /\ solr_index' = solr_index
          /\ Len(logs_seen') = Len(logs_seen) + 1
          /\ logs_seen'[Len(logs_seen')].operation = outcome'.operation
          /\ outcome'.requests = 1
      ]_vars

\* a search failed after an update had failed: two records, an empty hit set
C25_Witness ==
    /\ bpc = "called" /\ failing /\ outcome.operation = "search"
    /\ outcome.returned = [hits |-> 0, results |-> {}]
    /\ Len(logs_seen) = 2 /\ logs_seen[1].operation = "update"

(***************************************************************************)
(* Indexing, slicing, len() and iteration on one SearchQuerySet            *)
(***************************************************************************)
Min(a, b) == IF a < b THEN a ELSE b

\* position k (from 0) of the cache holds a result
cached(cache, k) == k < Len(cache) /\ cache[k + 1] # None

\* the count is known and the positions start..bound-1 within it are cached
all_cached(cache, count, start, bound) ==
    /\ count # None
    /\ \A k \in start..(Min(bound, count.n) - 1) : cached(cache, k)

\* one fetch of [start:end] from a backend with n hits: it is logged, tells
\* the count and, unless the caller streams, fills the cache
fetch(st, n, start, end, fill) ==
    [cache |-> IF fill
               THEN fill_cache(st.cache, n, start, backend_slice(n, start, end))
               ELSE st.cache,
     count |-> Integer(n),
     queries |-> Append(st.queries, [start |-> start, end |-> end])]

\* a window of a single result
window_end_single(start, bound, size) == start + 1

\* the end of the window a slice fetches from start: a page, or less when
\* the slice ends before
window_end(start, bound, size) == Min(start + size, bound)

\* sqs[start:bound]: the windows from start on that are not all cached
RECURSIVE fill_slice(_, _, _, _, _)
fill_slice(st, n, start, bound, size) ==
    IF start >= bound THEN st
    ELSE IF st.count # None /\ start >= st.count.n THEN st
    ELSE LET end == window_end(start, bound, size)
         IN IF all_cached(st.cache, st.count, start, end)
            THEN fill_slice(st, n, end, bound, size)
            ELSE fill_slice(fetch(st, n, start, end, TRUE), n, end, bound, size)

\* sqs[k]: the page that contains k, unless k is cached or past the count
getitem(st, n, k, size) ==
    IF cached(st.cache, k) THEN st
    ELSE IF st.count # None /\ k >= st.count.n THEN st
    ELSE fetch(st, n, size * (k \div size), size * (k \div size) + size, TRUE)

\* len(sqs): one count-only fetch when the count is not known
length(st, n) ==
    IF st.count # None THEN st
    ELSE [st EXCEPT !.count = Integer(n),
                    !.queries = Append(@, [start |-> 0, end |-> 0])]

\* a whole iteration from position pos: cached results are yielded from the
\* cache by the full iteration, pages are fetched for the rest
RECURSIVE iterate(_, _, _, _, _)
iterate(st, n, pos, size, fill) ==
    IF st.count # None /\ pos >= st.count.n THEN st
    ELSE IF fill /\ cached(st.cache, pos) THEN iterate(st, n, pos + 1, size, fill)
    ELSE iterate(fetch(st, n, pos, pos + size, fill), n, pos + size, size, fill)

HitCounts == {0, 5, 23}

PageSizes == {2, 10}

Positions == {0, 4, 21}

Slices == {<<1, 11>>, <<0, 3>>, <<10, 23>>}

\* the result set as the operations see it
State == [cache |-> _result_cache, count |-> hit_count, queries |-> queries]

SetInit ==
    /\ backend_hits \in HitCounts /\ page_size \in PageSizes
    /\ _result_cache = <<>> /\ hit_count = None /\ queries = <<>>
    /\ iter_kind = "" /\ position = 0 /\ page = <<>> /\ yielded = <<>>
    /\ lpc = "ready" /\ touch = None /\ touches = 0

\* the frame of an operation that leaves the result set as st
Touched(st, name, start, stop) ==
    /\ lpc = "ready" /\ touches < MaxTouches
    /\ _result_cache' = st.cache /\ hit_count' = st.count
    /\ queries' = st.queries
    /\ touch' = [kind |-> "touch", op |-> name, start |-> start, stop |-> stop]
    /\ touches' = touches + 1
    /\ UNCHANGED <<backend_hits, page_size, iter_kind, position, page, yielded,
                   lpc, notL>>

\* sqs[k]
Index(k) ==
    Touched(getitem(State, backend_hits, k, page_size), "index", k, k + 1)

\* sqs[start:stop]
Slice(start, stop) ==
    Touched(fill_slice(State, backend_hits, start, stop, page_size), "slice",
            start, stop)

\* len(sqs)
Length == Touched(length(State, backend_hits), "len", 0, 0)

\* [r for r in sqs], or [r for r in sqs._manual_iter()]
IterateAll(kind) ==
    Touched(iterate(State, backend_hits, 0, page_size, kind = "iter"), kind,
            0, backend_hits)

CacheInit ==
    SetInit /\ QIdle /\ EIdle /\ FIdle /\ CIdle /\ AIdle /\ RIdle /\ IIdle
            /\ SIdle /\ HIdle /\ GIdle /\ BIdle /\ KIdle

CacheNext ==
    \/ \E k \in Positions : Index(k)
    \/ \E sl \in Slices : Slice(sl[1], sl[2])
    \/ Length
    \/ \E kind \in {"iter", "manual"} : IterateAll(kind)

SpecCache == CacheInit /\ [][CacheNext]_vars

\* the positions of the set that sqs[start:stop] asks for
Wanted(start, stop) == start..(Min(stop, backend_hits) - 1)

C22_Theorem ==
    /\ [](queries # <<>> => hit_count # None)
    /\ [][/\ hit_count # None => hit_count' = hit_count
          /\ \A k \in 1..Len(_result_cache) :
                _result_cache[k] # None =>
                    /\ k <= Len(_result_cache')
                    /\ _result_cache'[k] = _result_cache[k]
         ]_vars

\* a full iteration followed [1:11] on 23 hits and filled the whole cache
C22_Witness ==
    /\ touches = 2 /\ touch.op = "iter" /\ backend_hits = 23
    /\ hit_count = Integer(23) /\ Len(_result_cache) = 23
    /\ \A k \in 1..23 : _result_cache[k] = Integer(k)
    /\ queries[1] = [start |-> 1, end |-> 11] /\ Len(queries) > 2

(***************************************************************************)
(* SearchQuerySets made from one another: filter, order_by, facet, & and | *)
(***************************************************************************)
\* a query object: the condition tree, the ordering and the facets
Plan(tree, ordering, fields) ==
    [query_filter |-> tree, order_by |-> ordering, facets |-> fields]

\* the result sets, the query objects and the caches there are
World == [sets |-> result_sets, plans |-> plans, caches |-> caches]

\* a copy that refers to the query and the cache of the original
_clone_shared(w, id) == [w EXCEPT !.sets = Append(@, w.sets[id])]

\* SearchQuerySet._clone: a new result set with a copy of the query of its
\* own and an empty cache of its own
_clone(w, id) ==
    [sets |-> Append(w.sets, [query |-> Len(w.plans) + 1,
                              cache |-> Len(w.caches) + 1]),
     plans |-> Append(w.plans, w.plans[w.sets[id].query]),
     caches |-> Append(w.caches, <<>>)]

\* the query object of a result set
query(w, id) == w.plans[w.sets[id].query]

\* query.add_filter on the query object of result set id
add_filter(w, id, node, conn) ==
    [w EXCEPT !.plans[w.sets[id].query].query_filter = add(@, node, conn)]

\* query.add_order_by
add_order_by(w, id, f) ==
    [w EXCEPT !.plans[w.sets[id].query].order_by = Append(@, f)]

\* query.add_field_facet
add_field_facet(w, id, f) ==
    [w EXCEPT !.plans[w.sets[id].query].facets = @ \cup {f}]

\* sqs.filter(...), sqs.order_by(...), sqs.facet(...): on a clone
filter(w, id, node) ==
    add_filter(_clone(w, id), Len(w.sets) + 1, node, "AND")

order_by(w, id, f) == add_order_by(_clone(w, id), Len(w.sets) + 1, f)

facet(w, id, f) == add_field_facet(_clone(w, id), Len(w.sets) + 1, f)

\* sqs & other, sqs | other: the other's condition tree added to a clone
combine_sets(w, id, other, conn) ==
    add_filter(_clone(w, id), Len(w.sets) + 1, query(w, other).query_filter,
               conn)

\* a fetch through result set id fills the cache it refers to
fill_through(w, id) ==
    [w EXCEPT !.caches[w.sets[id].cache] =
        fill_cache(@, Cardinality(SampleObjs), 0,
                   backend_slice(Cardinality(SampleObjs), 0,
                                 Cardinality(SampleObjs)))]

\* tree.Node.add as modelled covers a tree of fewer than two children or of
\* the connector asked for
Addable(w, id, conn) ==
    \/ Len(query(w, id).query_filter.children) < 2
    \/ query(w, id).query_filter.connector = conn

\* sqs1 = self.sqs.filter(content='foo'); sqs2 = self.sqs.filter(content='bar')
KInit ==
    /\ result_sets = <<[query |-> 1, cache |-> 1], [query |-> 2, cache |-> 2]>>
    /\ plans = <<Plan(SQ(<<Leaf("content", Str("foo"))>>), <<>>, {}),
                 Plan(SQ(<<Leaf("content", Str("bar"))>>), <<>>, {})>>
    /\ caches = <<<<>>, <<>>>>
    /\ through = 0 /\ kpc = "start"

\* the frame of an operation that makes a result set
Made(w, name) ==
    /\ Len(result_sets) < MaxSets
    /\ result_sets' = w.sets /\ plans' = w.plans /\ caches' = w.caches
    /\ kpc' = name
    /\ UNCHANGED <<through, notK>>

FilterSet(id) ==
    /\ Addable(World, id, "AND")
    /\ Made(filter(World, id, SQ(<<Leaf("title", Str("moof"))>>)), "filter")

OrderSet(id) == Made(order_by(World, id, "pub_date"), "order_by")

FacetSet(id) == Made(facet(World, id, "author"), "facet")

AndSets(id, other) ==
    /\ Addable(World, id, "AND")
    /\ Made(combine_sets(World, id, other, "AND"), "and")

OrSets(id, other) ==
    /\ Addable(World, id, "OR")
    /\ Made(combine_sets(World, id, other, "OR"), "or")

\* results are read through result set id
FetchThrough(id) ==
    /\ caches' = fill_through(World, id).caches
    /\ through' = id /\ kpc' = "fetch"
    /\ UNCHANGED <<result_sets, plans, notK>>

SetsInit ==
    KInit /\ QIdle /\ EIdle /\ FIdle /\ CIdle /\ AIdle /\ RIdle /\ IIdle /\ SIdle
          /\ LIdle /\ HIdle /\ GIdle /\ BIdle

SetsNext ==
    \/ \E id \in 1..Len(result_sets) : FilterSet(id)
    \/ \E id \in 1..Len(result_sets) : OrderSet(id)
    \/ \E id \in 1..Len(result_sets) : FacetSet(id)
    \/ \E id, other \in 1..Len(result_sets) : AndSets(id, other)
    \/ \E id, other \in 1..Len(result_sets) : OrSets(id, other)
    \/ \E id \in 1..Len(result_sets) : FetchThrough(id)

SpecSets == SetsInit /\ [][SetsNext]_vars

\* C23: &, |, filter, order_by and facet make a new result set and leave
\* every result set there was as it was: the same query (condition tree,
\* compiled string, ordering, facets) and the same cache; a fetch through one
\* result set fills the cache of no other.
C23_Theorem ==
    [][\A id \in 1..Len(result_sets) :
          /\ kpc' \in {"filter", "order_by", "facet", "and", "or"} =>
                /\ Len(result_sets') = Len(result_sets) + 1
                /\ result_sets'[id] = result_sets[id]
                /\ plans'[result_sets'[id].query] = plans[result_sets[id].query]
                /\ as_query_string(plans'[result_sets'[id].query].query_filter)
                      = as_query_string(plans[result_sets[id].query].query_filter)
                /\ caches'[result_sets'[id].cache] = caches[result_sets[id].cache]
          /\ (kpc' = "fetch" /\ through' # id) =>
                /\ caches'[result_sets'[id].cache] = caches[result_sets[id].cache]
                /\ plans'[result_sets'[id].query] = plans[result_sets[id].query]
      ]_vars

\* sqs1 & sqs2 was made and read through; the operands' caches are empty
\* and their queries compile as before
C23_Witness ==
    /\ Len(result_sets) = 3 /\ kpc = "fetch" /\ through = 3
    /\ caches[result_sets[3].cache] # <<>>
    /\ caches[result_sets[1].cache] = <<>> /\ caches[result_sets[2].cache] = <<>>
    /\ as_query_string(plans[result_sets[3].query].query_filter)
          = "(content__exact=foo AND content__exact=bar)"
    /\ as_query_string(plans[result_sets[1].query].query_filter)
          = "content__exact=foo"

====
